---- MODULE Spec2Model ----
(***************************************************************************)
(* Bid-document processing pipeline: orchestration (Pipeline), classifier, *)
(* field mapping, OCR escalation and the hybrid traditional/LLM extractor. *)
(*                                                                         *)
(* Python strings are sequences of one-character strings; a Python dict    *)
(* over a known key universe is a total function whose absent keys carry   *)
(* the value VAbsent.                                                      *)
(***************************************************************************)
EXTENDS Integers, Sequences, FiniteSets, TLC

VARIABLES
    \* ---- Pipeline.__init__ ------------------------------------------------
    incremental,    \* self.incremental
    mappingCfg,     \* what MappingResolver._load_mappings loaded
    ocrEnabled,     \* OCRProcessor.enabled
    runId,          \* self.run_id
    \* ---- the file system --------------------------------------------------
    fileName,       \* file -> file name (characters)
    fileVersion,    \* file -> content version (hash, size, mtime)
    stateFile,      \* contents of the incremental state file
    \* ---- process_directory -------------------------------------------------
    entry,          \* which method the caller invoked
    pc,             \* position in process_directory / process_file
    pstate,         \* self._state
    results,        \* the local list `results`
    idx,            \* position of the loop over pdf_files
    \* ---- process_file ------------------------------------------------------
    fingerprint,    \* the fingerprint parameter / local
    doc_type,       \* local doc_type
    result,         \* the working result dict
    needs_ocr,      \* local needs_ocr
    reasons,        \* local reasons
    extracted,      \* what the first run_extraction returned (history)
    extractCalls,   \* calls of run_extraction for this document (history)
    initial,        \* initial_result, as passed to _attempt_ocr_and_reextract (history)
    firstNeeds,     \* the first needs-OCR assessment (history)
    ocrCalls,       \* calls of OCRProcessor.run for this document (history)
    ocrOutcome,     \* what OCRProcessor.run did for this document (history)
    ocrTmp,         \* the temporary output file of OCRProcessor.run
    exc,            \* the exception being handled
    ret,            \* the outcome process_file returned
    retVia,         \* the return statement that produced it (history)
    \* ---- history of the previous run ---------------------------------------
    runNo,          \* "first" or "second" run of process_directory
    prevOutcome,    \* file -> status of its outcome in the first run
    modified,       \* file -> its content changed after the first run
    stateIO,        \* this run's calls of _load_state and of _save_state
    saved,          \* the first run's _save_state wrote the state file
    \* ---- HybridExtractor ---------------------------------------------------
    hpc,            \* position in HybridExtractor.extract
    trad_result,    \* local trad_result
    confidence,     \* local confidence, as filled/total (absent when unset)
    threshold,      \* self.confidence_threshold, as num/den
    llmCalls,       \* calls of the LLM extractor (history)
    llmOutcome,     \* what the LLM strategy did (history)
    hret,           \* what HybridExtractor.extract returned
    \* ---- one call of a helper function ------------------------------------
    fnpc,           \* "call" before the call, "returned" after it
    fn,             \* the function called
    arg,            \* its arguments
    fnret           \* what it returned

pipeVars == <<incremental, mappingCfg, ocrEnabled, runId, fileName, fileVersion,
              stateFile, entry, pc, pstate, results, idx, fingerprint, doc_type,
              result, needs_ocr, reasons, extracted, extractCalls, initial,
              firstNeeds, ocrCalls, ocrOutcome, ocrTmp, exc, ret, retVia, runNo,
              prevOutcome, modified, saved,
              stateIO>>
hybVars == <<hpc, trad_result, confidence, threshold, llmCalls, llmOutcome, hret>>
fnVars == <<fnpc, fn, arg, fnret>>
vars == <<pipeVars, hybVars, fnVars>>

----------------------------------------------------------------------------
(* Strings *)

UpperCase == <<"A", "B", "C", "D", "E", "F", "G", "H", "I", "J", "K", "L", "M", "N", "O", "P", "Q", "R", "S", "T", "U", "V", "W", "X", "Y", "Z">>
LowerCase == <<"a", "b", "c", "d", "e", "f", "g", "h", "i", "j", "k", "l", "m", "n", "o", "p", "q", "r", "s", "t", "u", "v", "w", "x", "y", "z">>
DigitChars == {"0", "1", "2", "3", "4", "5", "6", "7", "8", "9"}

Range(s) == {s[i] : i \in 1..Len(s)}

\* str.lower() and str.upper(), one character at a time
LowerChar(c) ==
    IF \E i \in 1..Len(UpperCase) : UpperCase[i] = c
    THEN LowerCase[CHOOSE i \in 1..Len(UpperCase) : UpperCase[i] = c]
    ELSE c
UpperChar(c) ==
    IF \E i \in 1..Len(LowerCase) : LowerCase[i] = c
    THEN UpperCase[CHOOSE i \in 1..Len(LowerCase) : LowerCase[i] = c]
    ELSE c
Lower(s) == [i \in 1..Len(s) |-> LowerChar(s[i])]
Upper(s) == [i \in 1..Len(s) |-> UpperChar(s[i])]

\* `sub in s`
Contains(s, sub) ==
    \E i \in 0..(Len(s) - Len(sub)) : \A j \in 1..Len(sub) : s[i + j] = sub[j]

\* str.strip() == "" : only whitespace
IsBlank(s) == \A i \in 1..Len(s) : s[i] = " "

IsDigit(c) == c \in DigitChars
\* \w of the re module
IsWordChar(c) == c \in Range(UpperCase) \cup Range(LowerCase) \cup DigitChars \cup {"_"}

KW_invitation == <<"i", "n", "v", "i", "t", "a", "t", "i", "o", "n">>
KW_bid == <<"b", "i", "d">>
KW_bid_tab_sp == <<"b", "i", "d", " ", "t", "a", "b">>
KW_bid_tab_us == <<"b", "i", "d", "_", "t", "a", "b">>
KW_bidtab == <<"b", "i", "d", "t", "a", "b">>
KW_award == <<"a", "w", "a", "r", "d">>
KW_letter == <<"l", "e", "t", "t", "e", "r">>
KW_item_c_sp == <<"i", "t", "e", "m", " ", "c">>
KW_item_c_us == <<"i", "t", "e", "m", "_", "c">>
KW_itemc == <<"i", "t", "e", "m", "c">>
KW_bid_summary == <<"b", "i", "d", " ", "s", "u", "m", "m", "a", "r", "y">>
KW_bidsummary == <<"b", "i", "d", "s", "u", "m", "m", "a", "r", "y">>
KW_bids_as_read_sp == <<"b", "i", "d", "s", " ", "a", "s", " ", "r", "e", "a", "d">>
KW_bids_as_read_us == <<"b", "i", "d", "s", "_", "a", "s", "_", "r", "e", "a", "d">>

\* The file names of the documents of the model
FN_AwardLetter == <<"A", "w", "a", "r", "d", " ", "L", "e", "t", "t", "e", "r", " ", "d", "a", "0", "0", "1", "2", "3", ".", "p", "d", "f">>
FN_Scan == <<"s", "c", "a", "n", ".", "p", "d", "f">>
FN_BidTabs == <<"1", "2", "3", "4", "5", "6", "7", "8", " ", "B", "i", "d", " ", "T", "a", "b", "s", ".", "p", "d", "f">>
FN_BidSummary == <<"D", "A", "0", "0", "5", "7", "3", " ", "B", "i", "d", " ", "S", "u", "m", "m", "a", "r", "y", ".", "p", "d", "f">>
FileNames == <<FN_AwardLetter, FN_Scan, FN_BidTabs, FN_BidSummary>>

----------------------------------------------------------------------------
(* DocumentClassifier *)

DocumentType == {"invitation_to_bid", "bid_tabs", "award_letter", "item_c_report",
                 "bid_summary", "bids_as_read", "unknown"}

\* _classify_by_filename on self.filename = name, without .lower()
ClassifyByFilenameCaseSensitive(name) ==
    LET filename == name IN
    IF Contains(filename, KW_invitation) /\ Contains(filename, KW_bid)
        THEN "invitation_to_bid"
    ELSE IF Contains(filename, KW_bid_tab_sp) \/ Contains(filename, KW_bid_tab_us)
            \/ Contains(filename, KW_bidtab)
        THEN "bid_tabs"
    ELSE IF Contains(filename, KW_award) /\ Contains(filename, KW_letter)
        THEN "award_letter"
    ELSE IF Contains(filename, KW_item_c_sp) \/ Contains(filename, KW_item_c_us)
            \/ Contains(filename, KW_itemc)
        THEN "item_c_report"
    ELSE IF Contains(filename, KW_bid_summary) \/ Contains(filename, KW_bidsummary)
        THEN "bid_summary"
    ELSE IF Contains(filename, KW_bids_as_read_sp) \/ Contains(filename, KW_bids_as_read_us)
        THEN "bids_as_read"
    ELSE "unknown"

\* _classify_by_filename, on self.filename = name.lower()
ClassifyByFilename(name) ==
    LET filename == Lower(name) IN
    IF Contains(filename, KW_invitation) /\ Contains(filename, KW_bid)
        THEN "invitation_to_bid"
    ELSE IF Contains(filename, KW_bid_tab_sp) \/ Contains(filename, KW_bid_tab_us)
            \/ Contains(filename, KW_bidtab)
        THEN "bid_tabs"
    ELSE IF Contains(filename, KW_award) /\ Contains(filename, KW_letter)
        THEN "award_letter"
    ELSE IF Contains(filename, KW_item_c_sp) \/ Contains(filename, KW_item_c_us)
            \/ Contains(filename, KW_itemc)
        THEN "item_c_report"
    ELSE IF Contains(filename, KW_bid_summary) \/ Contains(filename, KW_bidsummary)
        THEN "bid_summary"
    ELSE IF Contains(filename, KW_bids_as_read_sp) \/ Contains(filename, KW_bids_as_read_us)
        THEN "bids_as_read"
    ELSE "unknown"

\* What reading the first page gives _classify_by_content: the read raises, the
\* PDF has no pages, or the set of phrases the lower-cased text contains.
PagePhrases == {"notice to prospective bidders", "invitation to bid",
                "notification of award", "pleased to inform you that",
                "item c", "$ totals", "% diff", "roadway items", "bidder",
                "contractor", "bids as read"}
FirstPages ==
    { [kind |-> "raises", has |-> {}], [kind |-> "no_pages", has |-> {}],
      [kind |-> "text", has |-> {}],
      [kind |-> "text", has |-> {"invitation to bid"}],
      [kind |-> "text", has |-> {"pleased to inform you that", "bidder"}],
      [kind |-> "text", has |-> {"item c", "% diff"}],
      [kind |-> "text", has |-> {"item c", "roadway items", "contractor"}],
      [kind |-> "text", has |-> {"bids as read", "bidder"}] }

\* _classify_by_content
ClassifyByContent(page) ==
    IF page.kind = "raises" THEN "unknown"
    ELSE IF page.kind = "no_pages" THEN "unknown"
    ELSE IF "notice to prospective bidders" \in page.has \/ "invitation to bid" \in page.has
        THEN "invitation_to_bid"
    ELSE IF "notification of award" \in page.has \/ "pleased to inform you that" \in page.has
        THEN "award_letter"
    ELSE IF "item c" \in page.has /\ ("$ totals" \in page.has \/ "% diff" \in page.has)
        THEN "item_c_report"
    ELSE IF "roadway items" \in page.has /\ ("bidder" \in page.has \/ "contractor" \in page.has)
        THEN "bid_tabs"
    ELSE IF "bids as read" \in page.has
        THEN "bids_as_read"
    ELSE "unknown"

\* classify that looks at the first page before the file name
ClassifyContentFirst(name, page) ==
    LET t == ClassifyByContent(page) IN
    IF t # "unknown" THEN t ELSE ClassifyByFilename(name)

\* classify, lines 40-45: the times pypdf.PdfReader is opened
ClassifyReads(name) == IF ClassifyByFilename(name) # "unknown" THEN 0 ELSE 1

\* classify: the file name first, the first page only when that is unknown
Classify(name, page) ==
    LET t == ClassifyByFilename(name) IN
    IF t # "unknown" THEN t ELSE ClassifyByContent(page)

\* A registry without BidSummaryExtractor
HasExtractorNoBidSummary(t) ==
    t \in {"invitation_to_bid", "bid_tabs", "award_letter", "item_c_report",
           "bids_as_read"}

\* get_extractor_class: TRUE when the registry holds an extractor for the type
HasExtractor(t) ==
    t \in {"invitation_to_bid", "bid_tabs", "award_letter", "item_c_report",
           "bid_summary", "bids_as_read"}

----------------------------------------------------------------------------
(* Pipeline._infer_contract_number_from_filename *)

NoMatch == <<>>

\* re.search(r"(DA\d{5})", filename, re.IGNORECASE): the start positions
MatchDA(s) ==
    { i \in 1..(Len(s) - 6) :
        /\ LowerChar(s[i]) = "d"
        /\ LowerChar(s[i + 1]) = "a"
        /\ \A j \in 2..6 : IsDigit(s[i + j]) }

\* re.search(r"\b(\d{8})\b", filename): the start positions
MatchEightDigits(s) ==
    { i \in 1..(Len(s) - 7) :
        /\ \A j \in 0..7 : IsDigit(s[i + j])
        /\ (i = 1 \/ ~IsWordChar(s[i - 1]))
        /\ (i + 8 > Len(s) \/ ~IsWordChar(s[i + 8])) }

Min(S) == CHOOSE x \in S : \A y \in S : x <= y

InferContractNumberFromFilename(filename) ==
    IF MatchDA(filename) # {}
        THEN Upper(SubSeq(filename, Min(MatchDA(filename)), Min(MatchDA(filename)) + 6))
    ELSE IF MatchEightDigits(filename) # {}
        THEN Upper(SubSeq(filename, Min(MatchEightDigits(filename)),
                          Min(MatchEightDigits(filename)) + 7))
    ELSE NoMatch

----------------------------------------------------------------------------
(* Extracted data: values, records (dicts) and list items *)

FieldNames == {"contract_number", "description", "awarded_to", "winner_name",
               "bidders", "bid_items"}
ItemFieldNames == {"bidder_name", "total_bid_amount", "company_name"}

VAbsent == [k |-> "absent", s |-> <<>>, l |-> <<>>]     \* the key is not in the dict
VNone == [k |-> "none", s |-> <<>>, l |-> <<>>]         \* None
VStr(str) == [k |-> "str", s |-> str, l |-> <<>>]
VList(items) == [k |-> "list", s |-> <<>>, l |-> items]

EmptyDict == [f \in FieldNames |-> VAbsent]
EmptyItem == [f \in ItemFieldNames |-> VAbsent]
DictOf(d) == [f \in FieldNames |-> IF f \in DOMAIN d THEN d[f] ELSE VAbsent]
ItemOf(d) == [isdict |-> TRUE,
              d |-> [f \in ItemFieldNames |-> IF f \in DOMAIN d THEN d[f] ELSE VAbsent]]
NonRecordItem == [isdict |-> FALSE, d |-> EmptyItem]

Keys(d) == {f \in DOMAIN d : d[f].k # "absent"}
\* bool(value)
Truthy(v) ==
    \/ v.k = "str" /\ v.s # <<>>
    \/ v.k = "list" /\ v.l # <<>>

\* result["data"]: None, or a dict
DataNone == [none |-> TRUE, d |-> EmptyDict]
DataDict(d) == [none |-> FALSE, d |-> d]
\* bool(result.get("data"))
DataTruthy(data) == ~data.none /\ Keys(data.d) # {}

S_C1 == <<"D", "A", "9", "9", "9", "9", "9">>
S_X == <<"X">>
S_Acme == <<"A", "c", "m", "e">>
S_Blank == <<" ">>

AcmeItem == ItemOf([bidder_name |-> VStr(S_Acme), total_bid_amount |-> VStr(S_X)])
AliasItem == ItemOf([company_name |-> VStr(S_Acme)])

\* The dicts an extractor's extract() returns in the model
D_Empty == EmptyDict
D_Blank == DictOf([contract_number |-> VNone, description |-> VStr(S_Blank),
                   bidders |-> VList(<<>>)])
D_Full == DictOf([contract_number |-> VStr(S_C1), description |-> VStr(S_X),
                  bidders |-> VList(<<AcmeItem, NonRecordItem, AliasItem>>),
                  bid_items |-> VList(<<>>)])
D_NoContract == DictOf([contract_number |-> VNone, awarded_to |-> VStr(S_Acme),
                        description |-> VStr(S_X)])
D_Low == DictOf([description |-> VStr(S_X), bidders |-> VList(<<>>),
                 bid_items |-> VList(<<>>)])
D_Alias == DictOf([contract_number |-> VStr(S_C1), winner_name |-> VStr(S_Acme),
                   awarded_to |-> VStr(S_X)])
DataSamples == {D_Empty, D_Blank, D_Full, D_NoContract, D_Low, D_Alias}

----------------------------------------------------------------------------
(* Result metadata: a dict with a fixed key universe *)

\* A confidence score is a fraction <<numerator, denominator>>; a key that
\* holds no score has denominator 0
NoScore == <<0, 0>>

NoMeta ==
    [ text_length |-> -1, text_pages_with_content |-> -1,
      mapping_applied |-> "absent", mapping_source |-> "absent",
      mapping_name |-> "absent",
      contract_number_source |-> "absent",
      ocr_attempted |-> "absent", ocr_enabled |-> "absent",
      ocr_applied |-> "absent", ocr_method |-> "absent",
      ocr_error |-> "absent", ocr_source_file |-> "absent",
      needs_ocr |-> "absent", needs_ocr_reasons |-> <<>>,
      partial_reasons |-> <<>>,
      run_id |-> 0, file_hash |-> 0, file_size_bytes |-> 0, file_mtime_ts |-> 0,
      skip_reason |-> "absent",
      confidence |-> NoScore, method_used |-> "absent",
      traditional_confidence |-> NoScore, llm_fallback_failed |-> "absent" ]

\* dict.update: the keys the update carries replace those of the target
MetaUpdate(meta, upd) ==
    [key \in DOMAIN meta |-> IF key \in DOMAIN upd THEN upd[key] ELSE meta[key]]

NoResult ==
    [ status |-> "none", data |-> DataNone, error |-> "absent",
      document_type |-> "absent", meta |-> NoMeta ]

----------------------------------------------------------------------------
(* BaseExtractor.run_extraction *)

\* _extract_text_stats: (text_length, text_pages_with_content)
TextStats == { <<0, 0>>, <<10, 1>>, <<200, 1>> }

\* The results of run_extraction: extract() returned `d`, or it raised
ExtractionSuccess(d, stats) ==
    [ status |-> "success", data |-> DataDict(d), error |-> "absent",
      document_type |-> "absent",
      meta |-> MetaUpdate(NoMeta, [text_length |-> stats[1],
                                   text_pages_with_content |-> stats[2]]) ]
ExtractionFailed(stats) ==
    [ status |-> "failed", data |-> DataNone, error |-> "extract_raised",
      document_type |-> "absent",
      meta |-> MetaUpdate(NoMeta, [text_length |-> stats[1],
                                   text_pages_with_content |-> stats[2]]) ]
RunExtractionResults(samples, stats) ==
    { ExtractionSuccess(d, st) : d \in samples, st \in stats }
        \cup { ExtractionFailed(st) : st \in stats }

----------------------------------------------------------------------------
(* transformers/file_mapping.py *)

NoSchema ==
    [ kind |-> "absent", keys |-> {}, mapping_name |-> "none", fields |-> <<>>,
      aliases |-> <<>>, list_fields |-> <<>> ]
NotAnObject ==
    [ kind |-> "not_object", keys |-> {}, mapping_name |-> "none", fields |-> <<>>,
      aliases |-> <<>>, list_fields |-> <<>> ]
Schema(name, fields, aliases, list_fields, keys) ==
    [ kind |-> "object", keys |-> keys, mapping_name |-> name, fields |-> fields,
      aliases |-> aliases, list_fields |-> list_fields ]
ListSchema(name, fields, aliases) ==
    [ name |-> name, fields |-> fields, aliases |-> aliases ]

BiddersDefault ==
    ListSchema("bidders",
               <<"bidder_name", "bidder_location", "total_bid_amount", "bid_rank",
                 "percentage_diff", "is_winner">>, <<>>)
BidItemsDefault ==
    ListSchema("bid_items",
               <<"item_number", "item_code", "description", "quantity", "unit",
                 "unit_price", "total_price", "bidder_name">>, <<>>)
ItemCBiddersDefault ==
    ListSchema("bidders",
               <<"bidder_name", "bidder_location", "total_bid_amount",
                 "percentage_diff", "bid_rank", "is_winner">>, <<>>)

\* DEFAULT_FIELD_MAPPINGS.get(t, {})
DEFAULT_FIELD_MAPPINGS(t) ==
    CASE t = "invitation_to_bid" ->
            Schema("invitation_to_bid_default",
                   <<"contract_number", "wbs_element", "counties", "description",
                     "date_available", "completion_date", "mbe_goal", "wbe_goal",
                     "combined_goal", "bid_opening_date">>,
                   <<>>, <<>>, {"mapping_name", "fields", "aliases"})
      [] t = "award_letter" ->
            Schema("award_letter_default",
                   <<"contract_number", "awarded_to", "awarded_amount", "award_date",
                     "wbs_element", "counties", "description">>,
                   <<>>, <<>>, {"mapping_name", "fields", "aliases"})
      [] t = "bid_tabs" ->
            Schema("bid_tabs_default",
                   <<"contract_number", "bidders", "bid_items">>,
                   <<>>, <<BiddersDefault, BidItemsDefault>>,
                   {"mapping_name", "fields", "aliases", "list_fields"})
      [] t = "item_c_report" ->
            Schema("item_c_report_default",
                   <<"contract_number", "proposal_length", "type_of_work", "location",
                     "estimated_cost", "date_available", "completion_date", "bidders">>,
                   <<>>, <<ItemCBiddersDefault>>,
                   {"mapping_name", "fields", "aliases", "list_fields"})
      [] OTHER -> NoSchema

\* The external field_mappings.json of the model: two types, with aliases
ExternalMappings(t) ==
    CASE t = "award_letter" ->
            Schema("award_letter_external",
                   <<"contract_number", "awarded_to", "description">>,
                   << <<"winner_name", "awarded_to">> >>, <<>>,
                   {"mapping_name", "fields", "aliases"})
      [] t = "bid_tabs" ->
            Schema("bid_tabs_external",
                   <<"contract_number", "bidders">>,
                   <<>>,
                   << ListSchema("bidders", <<"bidder_name", "total_bid_amount">>,
                                 << <<"company_name", "bidder_name">> >>) >>,
                   {"mapping_name", "fields", "aliases", "list_fields"})
      [] OTHER -> NoSchema

\* What the mapping file holds, as MappingResolver finds it:
\*   "none"       no file: DEFAULT_FIELD_MAPPINGS
\*   "external"   a JSON object: ExternalMappings
\*   "unparsable" a file that is no JSON object: DEFAULT_FIELD_MAPPINGS
\*   "bad_entry"  a JSON object whose entries are not objects
MappingCfgs == {"none", "external", "unparsable", "bad_entry"}

\* MappingResolver._load_mappings, then self.mappings.get(document_type, {})
LoadedMapping(cfg, t) ==
    CASE cfg = "external" -> ExternalMappings(t)
      [] cfg = "bad_entry" -> NotAnObject
      [] OTHER -> DEFAULT_FIELD_MAPPINGS(t)

\* The body of MappingResolver.resolve, for the entry self.mappings holds
ResolveEntry(mapping, mapping_source) ==
    [ raises |-> mapping.kind = "not_object",     \* dict(mapping) raises
      keys |-> mapping.keys \cup {"mapping_source", "mapping_file",
                                  "document_type", "file_name"},
      mapping_name |-> mapping.mapping_name,
      mapping_source |-> mapping_source,
      fields |-> mapping.fields,
      aliases |-> mapping.aliases,
      list_fields |-> mapping.list_fields ]

\* MappingResolver.resolve
Resolve(cfg, document_type) ==
    ResolveEntry(LoadedMapping(cfg, document_type),
                 IF cfg = "none" THEN "default" ELSE "external")

\* The first loop of apply_mapping and of _apply_item_mapping
CopyFields(universe, fields, raw) ==
    [f \in universe |-> IF f \in Range(fields) THEN raw[f] ELSE VAbsent]

\* ApplyAliases without the test `target not in mapped`
RECURSIVE ApplyAliasesOverwrites(_, _, _, _, _)
ApplyAliasesOverwrites(aliases, i, fields, raw, mapped) ==
    IF i > Len(aliases) THEN mapped
    ELSE LET alias == aliases[i][1]
             target == aliases[i][2]
             take == /\ target \in Range(fields)
                     /\ alias \in DOMAIN raw /\ raw[alias].k # "absent"
         IN ApplyAliasesOverwrites(aliases, i + 1, fields, raw,
                         IF take THEN [mapped EXCEPT ![target] = raw[alias]]
                         ELSE mapped)

\* The alias loop, from alias i on
RECURSIVE ApplyAliases(_, _, _, _, _)
ApplyAliases(aliases, i, fields, raw, mapped) ==
    IF i > Len(aliases) THEN mapped
    ELSE LET alias == aliases[i][1]
             target == aliases[i][2]
             take == /\ target \in Range(fields)
                     /\ alias \in DOMAIN raw /\ raw[alias].k # "absent"
                     /\ target \in DOMAIN mapped /\ mapped[target].k = "absent"
         IN ApplyAliases(aliases, i + 1, fields, raw,
                         IF take THEN [mapped EXCEPT ![target] = raw[alias]]
                         ELSE mapped)

\* _apply_item_mapping
ApplyItemMapping(item, mapping) ==
    [ isdict |-> TRUE,
      d |-> ApplyAliases(mapping.aliases, 1, mapping.fields, item.d,
                         CopyFields(ItemFieldNames, mapping.fields, item.d)) ]

\* MapItems that keeps the elements that are not records
MapItemsKeepsAll(items, mapping) ==
    [i \in 1..Len(items) |->
        IF items[i].isdict THEN ApplyItemMapping(items[i], mapping) ELSE items[i]]

\* [ _apply_item_mapping(item) for item in items if isinstance(item, dict) ]
RECURSIVE MapItems(_, _)
MapItems(items, mapping) ==
    IF items = <<>> THEN <<>>
    ELSE IF Head(items).isdict
         THEN <<ApplyItemMapping(Head(items), mapping)>> \o MapItems(Tail(items), mapping)
         ELSE MapItems(Tail(items), mapping)

\* The list_fields loop of apply_mapping, from list field i on
RECURSIVE ApplyListFields(_, _, _, _)
ApplyListFields(list_fields, i, raw, mapped) ==
    IF i > Len(list_fields) THEN mapped
    ELSE LET lm == list_fields[i]
             items == IF raw[lm.name].k = "absent" THEN VList(<<>>) ELSE raw[lm.name]
         IN ApplyListFields(list_fields, i + 1, raw,
                            IF items.k # "list" THEN mapped
                            ELSE [mapped EXCEPT ![lm.name] = VList(MapItems(items.l, lm))])

MappingNotApplied == [mapping_applied |-> "false"]

\* apply_mapping
ApplyMapping(data, mapping) ==
    IF mapping.keys = {} \/ data.none
    THEN [data |-> data, meta |-> MappingNotApplied]
    ELSE [ data |-> DataDict(
               ApplyListFields(mapping.list_fields, 1, data.d,
                   ApplyAliases(mapping.aliases, 1, mapping.fields, data.d,
                       CopyFields(FieldNames, mapping.fields, data.d)))),
           meta |-> [ mapping_applied |-> "true",
                      mapping_name |-> mapping.mapping_name,
                      mapping_source |-> mapping.mapping_source ] ]

----------------------------------------------------------------------------
(* Pipeline: the pure helpers of process_file *)

MinTextLength == 50

\* The loop of _assess_needs_ocr that counts filled_fields
IsFilled(v) ==
    /\ v.k # "none"
    /\ ~(v.k = "list" /\ v.l = <<>>)
    /\ ~(v.k = "str" /\ IsBlank(v.s))
FilledFields(d) == Cardinality({f \in Keys(d) : IsFilled(d[f])})

\* AssessNeedsOcr in which a list field that is absent counts as empty
AssessNeedsOcrAbsentListsEmpty(res) ==
    LET text_length == IF res.meta.text_length = -1 THEN 0 ELSE res.meta.text_length
        pages_with_text == IF res.meta.text_pages_with_content = -1 THEN 0
                           ELSE res.meta.text_pages_with_content
        data == IF res.data.none THEN EmptyDict ELSE res.data.d
        total_fields == Cardinality(Keys(data))
        filled_fields == FilledFields(data)
        textReason == IF pages_with_text = 0 \/ text_length < MinTextLength
                      THEN <<"no_text_extracted">> ELSE <<>>
        dataReason == IF total_fields = 0 \/ filled_fields = 0
                          THEN <<"empty_data">>
                      ELSE IF /\ filled_fields <= 1
                              /\ data["bidders"] \in {VAbsent, VList(<<>>)}
                              /\ data["bid_items"] \in {VAbsent, VList(<<>>)}
                          THEN <<"low_field_coverage">>
                      ELSE <<>>
    IN textReason \o dataReason

\* AssessNeedsOcr without the filled_fields == 0 test of empty_data
AssessNeedsOcrNoFilledTest(res) ==
    LET text_length == IF res.meta.text_length = -1 THEN 0 ELSE res.meta.text_length
        pages_with_text == IF res.meta.text_pages_with_content = -1 THEN 0
                           ELSE res.meta.text_pages_with_content
        data == IF res.data.none THEN EmptyDict ELSE res.data.d
        total_fields == Cardinality(Keys(data))
        textReason == IF pages_with_text = 0 \/ text_length < MinTextLength
                      THEN <<"no_text_extracted">> ELSE <<>>
        dataReason == IF total_fields = 0 THEN <<"empty_data">> ELSE <<>>
    IN textReason \o dataReason

\* _assess_needs_ocr: the reasons (needs_ocr is len(reasons) > 0)
AssessNeedsOcr(res) ==
    LET text_length == IF res.meta.text_length = -1 THEN 0 ELSE res.meta.text_length
        pages_with_text == IF res.meta.text_pages_with_content = -1 THEN 0
                           ELSE res.meta.text_pages_with_content
        data == IF res.data.none THEN EmptyDict ELSE res.data.d
        total_fields == Cardinality(Keys(data))
        filled_fields == FilledFields(data)
        textReason == IF pages_with_text = 0 \/ text_length < MinTextLength
                      THEN <<"no_text_extracted">> ELSE <<>>
        dataReason == IF total_fields = 0 \/ filled_fields = 0
                          THEN <<"empty_data">>
                      ELSE IF /\ filled_fields <= 1
                              /\ data["bidders"] = VList(<<>>)
                              /\ data["bid_items"] = VList(<<>>)
                          THEN <<"low_field_coverage">>
                      ELSE <<>>
    IN textReason \o dataReason

\* _assess_partial_reasons
AssessPartialReasons(res) ==
    IF ~res.data.none /\ ~Truthy(res.data.d["contract_number"])
    THEN <<"missing_contract_number">> ELSE <<>>

\* _normalize_contract_number
NormalizeContractNumber(res, name) ==
    IF res.data.none THEN res
    ELSE IF Truthy(res.data.d["contract_number"]) THEN res
    ELSE LET inferred == InferContractNumberFromFilename(name) IN
         IF inferred = NoMatch THEN res
         ELSE [res EXCEPT !.data.d["contract_number"] = VStr(inferred),
                          !.meta.contract_number_source = "filename"]

\* _run_extraction, given what run_extraction returned: the mapping raises, or
\* the result with the mapped data, document_type and file_path
RunExtraction(o, cfg, t) ==
    IF o.status = "success" /\ DataTruthy(o.data)
    THEN LET mapping == Resolve(cfg, t) IN
         IF mapping.raises THEN [raises |-> TRUE, result |-> o]
         ELSE LET m == ApplyMapping(o.data, mapping) IN
              [ raises |-> FALSE,
                result |-> [o EXCEPT !.data = m.data,
                                     !.meta = MetaUpdate(o.meta, m.meta),
                                     !.document_type = t] ]
    ELSE [raises |-> FALSE, result |-> [o EXCEPT !.document_type = t]]

\* StatusAfterNeedsOcr without the test of the status
StatusAfterNeedsOcrAnyStatus(status, needs) ==
    IF needs THEN "partial" ELSE status

\* StatusAfterNeedsOcr without the downgrade
StatusAfterNeedsOcrKept(status, needs) == status

\* The status after process_file has recorded needs_ocr (lines 188-189)
StatusAfterNeedsOcr(status, needs) ==
    IF needs /\ status = "success" THEN "partial" ELSE status

\* The status after process_file has recorded partial_reasons (lines 197-200)
StatusAfterPartialReasons(status, partial_reasons) ==
    IF partial_reasons # <<>> /\ status = "success" THEN "partial" ELSE status

\* Where process_file goes after the first assessment (line 172)
AfterFirstAssessment(needs) == IF needs THEN "pf_ocr" ELSE "pf_record"

\* AfterReassessment with a second OCR attempt while OCR is still needed
AfterReassessmentRetries(needs) == IF needs THEN "pf_ocr" ELSE "pf_record"

\* Where process_file goes after the re-assessment (lines 182-184)
AfterReassessment(needs) == "pf_record"

----------------------------------------------------------------------------
(* OCRProcessor.run *)

\* What the environment does to a call of run: ocrmypdf is not installed, the
\* subprocess times out, it exits non-zero, or it writes the output file
OcrEnvs == {"unavailable", "timeout", "exit_nonzero", "ok"}

\* OcrFailedMeta with a failed run reported as applied
OcrFailedMetaReportsApplied(error) ==
    [ ocr_attempted |-> "true", ocr_enabled |-> "true", ocr_applied |-> "true",
      ocr_method |-> "ocrmypdf", ocr_error |-> error ]

OcrFailedMeta(error) ==
    [ ocr_attempted |-> "true", ocr_enabled |-> "true", ocr_applied |-> "false",
      ocr_method |-> "ocrmypdf", ocr_error |-> error ]

\* run: whether it raises, the path it returns (has_path), the state of the
\* temporary output file it made, and the metadata
OcrRun(enabled, env) ==
    IF ~enabled
        THEN [ kind |-> "disabled", raises |-> FALSE, has_path |-> FALSE, tmp |-> "none",
               meta |-> [ocr_attempted |-> "false", ocr_enabled |-> "false"] ]
    ELSE IF env = "unavailable"
        THEN [ kind |-> "unavailable", raises |-> FALSE, has_path |-> FALSE, tmp |-> "none",
               meta |-> OcrFailedMeta("ocrmypdf_not_available") ]
    ELSE IF env = "ok"
        THEN [ kind |-> "applied", raises |-> FALSE, has_path |-> TRUE, tmp |-> "exists",
               meta |-> [ ocr_attempted |-> "true", ocr_enabled |-> "true",
                          ocr_applied |-> "true", ocr_method |-> "ocrmypdf" ] ]
    ELSE IF env = "timeout"
        THEN [ kind |-> "timeout", raises |-> FALSE, has_path |-> FALSE, tmp |-> "exists",
               meta |-> OcrFailedMeta("timeout") ]
    ELSE [ kind |-> "exit_nonzero", raises |-> FALSE, has_path |-> FALSE, tmp |-> "exists",
           meta |-> OcrFailedMeta("called_process_error") ]

NoOcr == [ kind |-> "none", raises |-> FALSE, has_path |-> FALSE, tmp |-> "none",
           meta |-> [ocr_attempted |-> "absent"] ]

\* UnlinkOcrOutput as cleanup after the return statement only, not in a finally
UnlinkOcrOutputOnReturnOnly(raised) == IF raised THEN "exists" ELSE "removed"

\* The finally clause of _attempt_ocr_and_reextract: ocr_path.unlink(missing_ok=True)
UnlinkOcrOutput(raised) == "removed"

----------------------------------------------------------------------------
(* Files, fingerprints and the incremental state *)

NumFiles == 2
Files == 1..NumFiles

\* A file's content and modification time; _compute_file_fingerprint reads both
Contents == {1, 2}
MTimes == {1, 2}
FirstVersion == [content |-> 1, mtime |-> 1]
ComputeFileFingerprint(v) ==
    [ file_hash |-> v.content, file_size_bytes |-> 10 * v.content,
      file_mtime |-> v.mtime ]
NoFingerprint == [file_hash |-> 0, file_size_bytes |-> 0, file_mtime |-> 0]

\* self._state: path -> cached fingerprint; a path without an entry is NoEntry
NoEntry == [kind |-> "missing", fp |-> NoFingerprint]
Entry(fp) == [kind |-> "dict", fp |-> fp]
\* Entries no run of the pipeline writes: a falsy value (null, 0, "", [], {}),
\* a truthy value that is not an object (a string, a number, a list), and an
\* object that lacks file_size_bytes and file_mtime (.get gives None, here -1)
FalsyEntry == [kind |-> "falsy", fp |-> NoFingerprint]
NotADictEntry == [kind |-> "not_dict", fp |-> NoFingerprint]
PartialEntry(fp) ==
    [kind |-> "dict",
     fp |-> [file_hash |-> fp.file_hash, file_size_bytes |-> -1, file_mtime |-> -1]]
EmptyState == [f \in Files |-> NoEntry]

\* The state file on disk: missing, not a JSON object, or a JSON object
StateFileMissing == [kind |-> "missing", entries |-> EmptyState]
StateFileCorrupt == [kind |-> "corrupt", entries |-> EmptyState]
StateFileObject(entries) == [kind |-> "object", entries |-> entries]

\* LoadState that discards what the state file holds
LoadStateDiscards(sf) == EmptyState

\* No call of _load_state or _save_state yet
NoStateIO == [loads |-> 0, saves |-> 0]

\* _load_state
LoadState(sf) == IF sf.kind = "object" THEN sf.entries ELSE EmptyState

\* _is_unchanged, lines 95-99: cached.get on a value that has no .get
IsUnchangedRaises(state, f) == state[f].kind = "not_dict"

\* _is_unchanged
IsUnchanged(state, f, fp) ==
    LET cached == state[f] IN
    IF cached.kind \in {"missing", "falsy"} THEN FALSE
    ELSE IF IsUnchangedRaises(state, f) THEN FALSE
    ELSE /\ cached.fp.file_hash = fp.file_hash
         /\ cached.fp.file_size_bytes = fp.file_size_bytes
         /\ cached.fp.file_mtime = fp.file_mtime

FingerprintMeta(fp) ==
    [ file_hash |-> fp.file_hash, file_size_bytes |-> fp.file_size_bytes,
      file_mtime_ts |-> fp.file_mtime ]

\* _build_skip_result, and the run_id process_directory adds to it
BuildSkipResult(name, fp, run_id) ==
    [ status |-> "skipped", data |-> DataNone, error |-> "unchanged",
      document_type |-> ClassifyByFilename(name),
      meta |-> MetaUpdate(MetaUpdate(NoMeta, FingerprintMeta(fp)),
                          [skip_reason |-> "unchanged", run_id |-> run_id]) ]

\* The outcome of process_file for a type without an extractor (lines 154-159)
NoExtractorResult(t) ==
    [ status |-> "skipped", data |-> DataNone, error |-> "No extractor available for this document type",
      document_type |-> t, meta |-> NoMeta ]

\* The outcome the except clause of process_file builds (lines 233-247)
ExceptResult(e, fp) ==
    [ status |-> "failed", data |-> DataNone, error |-> e,
      document_type |-> "unknown",
      meta |-> MetaUpdate(NoMeta, FingerprintMeta(fp)) ]

NoOutcome == [status |-> "none", error |-> "none", document_type |-> "none"]

\* What the model keeps of an outcome appended to `results`
Summary(f, outcome) ==
    [ file |-> f, status |-> outcome.status, error |-> outcome.error,
      document_type |-> outcome.document_type, run_id |-> outcome.meta.run_id ]

----------------------------------------------------------------------------
(* process_file *)

\* The inputs of a directory run are drawn from narrower sets than those of
\* a direct call of process_file
Extractions ==
    IF entry = "process_file" THEN RunExtractionResults(DataSamples, TextStats)
    ELSE { ExtractionSuccess(D_Full, <<200, 1>>), ExtractionSuccess(D_Empty, <<0, 0>>) }
Envs == IF entry = "process_file" THEN OcrEnvs ELSE {"unavailable", "ok"}
Pages ==
    IF entry = "process_file" THEN FirstPages
    ELSE { [kind |-> "raises", has |-> {}],
           [kind |-> "text", has |-> {"pleased to inform you that", "bidder"}] }

dirVars == <<incremental, mappingCfg, ocrEnabled, runId, fileName, fileVersion,
             stateFile, entry, pstate, results, idx, runNo, prevOutcome,
             modified, saved, stateIO>>
docVars == <<doc_type, result, needs_ocr, reasons, extracted, extractCalls,
             initial, firstNeeds, ocrCalls, ocrOutcome, ocrTmp, exc>>

\* The locals of a call of process_file, before its first statement
FreshLocals ==
    /\ doc_type' = "absent"
    /\ result' = NoResult
    /\ needs_ocr' = FALSE
    /\ reasons' = <<>>
    /\ extracted' = NoResult
    /\ extractCalls' = 0
    /\ initial' = NoResult
    /\ firstNeeds' = FALSE
    /\ ocrCalls' = 0
    /\ ocrOutcome' = NoOcr
    /\ ocrTmp' = "none"
    /\ exc' = "none"

\* A return statement of process_file
Return(outcome, via) ==
    /\ ret' = outcome
    /\ retVia' = via
    /\ pc' = IF entry = "process_file" THEN "done" ELSE "dir_append"

\* A direct call: fingerprint is None, so line 134 computes it
PF_EnterDirect ==
    /\ pc = "pf_enter"
    /\ fingerprint' = ComputeFileFingerprint(fileVersion[idx])
    /\ pc' = "pf_classify"
    /\ UNCHANGED <<dirVars, docVars, ret, retVia, hybVars, fnVars>>

\* ... and _compute_file_fingerprint raises when the file cannot be read:
\* line 134 is outside the try block
PF_EnterDirectRaises ==
    /\ pc = "pf_enter"
    /\ pc' = "raised"
    /\ UNCHANGED <<dirVars, docVars, fingerprint, ret, retVia, hybVars, fnVars>>

\* Lines 139-159: classify, look the extractor up
PF_Classify ==
    /\ pc = "pf_classify"
    /\ \E page \in Pages :
          LET t == Classify(fileName[idx], page) IN
          /\ doc_type' = t
          /\ IF HasExtractor(t)
             THEN pc' = "pf_extract" /\ UNCHANGED <<ret, retVia>>
             ELSE Return(NoExtractorResult(t), "skip")
    /\ UNCHANGED <<dirVars, fingerprint, result, needs_ocr, reasons, extracted,
                   extractCalls, initial, firstNeeds, ocrCalls, ocrOutcome,
                   ocrTmp, exc, hybVars, fnVars>>

\* Lines 161-167, the extractor's constructor raises FileNotFoundError
PF_ExtractorRaises ==
    /\ pc = "pf_extract"
    /\ exc' = "file_not_found"
    /\ pc' = "pf_except"
    /\ UNCHANGED <<dirVars, fingerprint, doc_type, result, needs_ocr, reasons,
                   extracted, extractCalls, initial, firstNeeds, ocrCalls,
                   ocrOutcome, ocrTmp, ret, retVia, hybVars, fnVars>>

\* Lines 161-167: the first _run_extraction
PF_Extract ==
    /\ pc = "pf_extract"
    /\ \E o \in Extractions :
          LET r == RunExtraction(o, mappingCfg, doc_type) IN
          /\ extracted' = o
          /\ extractCalls' = extractCalls + 1
          /\ IF r.raises
             THEN exc' = "mapping_error" /\ pc' = "pf_except" /\ UNCHANGED result
             ELSE result' = r.result /\ pc' = "pf_assess" /\ UNCHANGED exc
    /\ UNCHANGED <<dirVars, fingerprint, doc_type, needs_ocr, reasons, initial,
                   firstNeeds, ocrCalls, ocrOutcome, ocrTmp, ret, retVia, hybVars, fnVars>>

\* Lines 169-172: normalize the contract number, assess
PF_Assess ==
    /\ pc = "pf_assess"
    /\ LET res == NormalizeContractNumber(result, fileName[idx])
           rs == AssessNeedsOcr(res)
       IN /\ result' = res
          /\ initial' = res
          /\ reasons' = rs
          /\ needs_ocr' = (Len(rs) > 0)
          /\ firstNeeds' = (Len(rs) > 0)
          /\ pc' = AfterFirstAssessment(Len(rs) > 0)
    /\ UNCHANGED <<dirVars, fingerprint, doc_type, extracted, extractCalls,
                   ocrCalls, ocrOutcome, ocrTmp, exc, ret, retVia, hybVars, fnVars>>

\* Lines 358-363: OCRProcessor.run, its metadata merged into initial_result
PF_Ocr ==
    /\ pc = "pf_ocr"
    /\ \E env \in Envs :
          LET out == OcrRun(ocrEnabled, env) IN
          /\ ocrCalls' = ocrCalls + 1
          /\ ocrOutcome' = out
          /\ ocrTmp' = out.tmp
          /\ IF out.raises
             THEN exc' = "ocr_error" /\ pc' = "pf_except" /\ UNCHANGED result
             ELSE /\ result' = [result EXCEPT !.meta = MetaUpdate(result.meta, out.meta)]
                  /\ pc' = IF out.has_path THEN "pf_reextract" ELSE "pf_reassess"
                  /\ UNCHANGED exc
    /\ UNCHANGED <<dirVars, fingerprint, doc_type, needs_ocr, reasons, extracted,
                   extractCalls, initial, firstNeeds, ret, retVia, hybVars, fnVars>>

\* Lines 365-380: _run_extraction on the OCR output, then the finally clause
PF_Reextract ==
    /\ pc = "pf_reextract"
    /\ \E o \in Extractions :
          LET r == RunExtraction(o, mappingCfg, doc_type) IN
          /\ extractCalls' = extractCalls + 1
          /\ ocrTmp' = UnlinkOcrOutput(r.raises)
          /\ IF r.raises
             THEN exc' = "mapping_error" /\ pc' = "pf_except" /\ UNCHANGED result
             ELSE /\ result' = [r.result EXCEPT !.meta =
                                   MetaUpdate(MetaUpdate(r.result.meta, ocrOutcome.meta),
                                              [ocr_source_file |-> "ocr_path"])]
                  /\ pc' = "pf_reassess"
                  /\ UNCHANGED exc
    /\ UNCHANGED <<dirVars, fingerprint, doc_type, needs_ocr, reasons, extracted,
                   initial, firstNeeds, ocrCalls, ocrOutcome, ret, retVia, hybVars, fnVars>>

\* Lines 181-182: normalize and assess again
PF_Reassess ==
    /\ pc = "pf_reassess"
    /\ LET res == NormalizeContractNumber(result, fileName[idx])
           rs == AssessNeedsOcr(res)
       IN /\ result' = res
          /\ reasons' = rs
          /\ needs_ocr' = (Len(rs) > 0)
          /\ pc' = AfterReassessment(Len(rs) > 0)
    /\ UNCHANGED <<dirVars, fingerprint, doc_type, extracted, extractCalls, initial,
                   firstNeeds, ocrCalls, ocrOutcome, ocrTmp, exc, ret, retVia, hybVars, fnVars>>

\* Lines 184-194: record needs_ocr, success becomes partial
PF_RecordNeedsOcr ==
    /\ pc = "pf_record"
    /\ result' = [result EXCEPT
          !.meta = MetaUpdate(result.meta,
                      [ needs_ocr |-> IF needs_ocr THEN "true" ELSE "false",
                        needs_ocr_reasons |-> reasons ]),
          !.status = StatusAfterNeedsOcr(result.status, needs_ocr)]
    /\ pc' = "pf_partial"
    /\ UNCHANGED <<dirVars, fingerprint, doc_type, needs_ocr, reasons, extracted,
                   extractCalls, initial, firstNeeds, ocrCalls, ocrOutcome, ocrTmp,
                   exc, ret, retVia, hybVars, fnVars>>

\* Lines 196-205: partial reasons
PF_PartialReasons ==
    /\ pc = "pf_partial"
    /\ LET partial_reasons == AssessPartialReasons(result) IN
       result' = [result EXCEPT
          !.meta.partial_reasons = partial_reasons,
          !.status = StatusAfterPartialReasons(result.status, partial_reasons)]
    /\ pc' = "pf_attach"
    /\ UNCHANGED <<dirVars, fingerprint, doc_type, needs_ocr, reasons, extracted,
                   extractCalls, initial, firstNeeds, ocrCalls, ocrOutcome, ocrTmp,
                   exc, ret, retVia, hybVars, fnVars>>

\* Lines 207-224: attach the run and fingerprint metadata, return
PF_Return ==
    /\ pc = "pf_attach"
    /\ Return([result EXCEPT !.meta =
                  MetaUpdate(MetaUpdate(result.meta, FingerprintMeta(fingerprint)),
                             [run_id |-> runId])],
              "normal")
    /\ UNCHANGED <<dirVars, fingerprint, docVars, hybVars, fnVars>>

\* Lines 226-247: the except clause
PF_Except ==
    /\ pc = "pf_except"
    /\ Return(ExceptResult(exc, fingerprint), "except")
    /\ UNCHANGED <<dirVars, fingerprint, docVars, hybVars, fnVars>>

ProcessFileSteps ==
    \/ PF_Classify
    \/ PF_ExtractorRaises
    \/ PF_Extract
    \/ PF_Assess
    \/ PF_Ocr
    \/ PF_Reextract
    \/ PF_Reassess
    \/ PF_RecordNeedsOcr
    \/ PF_PartialReasons
    \/ PF_Return
    \/ PF_Except

----------------------------------------------------------------------------
(* HybridExtractor: idle in the pipeline specifications *)

\* confidence_threshold: float = 0.5
DefaultThreshold == <<1, 2>>

\* No helper is called on its own
FnIdle ==
    /\ fnpc = "idle"
    /\ fn = "none"
    /\ arg = <<>>
    /\ fnret = <<>>

HybridIdle ==
    /\ hpc = "idle"
    /\ trad_result = NoResult
    /\ confidence = NoScore
    /\ threshold = DefaultThreshold
    /\ llmCalls = 0
    /\ llmOutcome = "none"
    /\ hret = NoResult

----------------------------------------------------------------------------
(* A direct call of process_file(pdf_path) *)

InitFile ==
    /\ entry = "process_file"
    /\ incremental = FALSE
    /\ mappingCfg \in MappingCfgs
    /\ ocrEnabled \in BOOLEAN
    /\ runId = 1
    /\ \E n \in 1..Len(FileNames) : fileName = [f \in Files |-> FileNames[n]]
    /\ fileVersion = [f \in Files |-> FirstVersion]
    /\ stateFile = StateFileMissing
    /\ pc = "pf_enter"
    /\ pstate = EmptyState
    /\ results = <<>>
    /\ idx = 1
    /\ fingerprint = NoFingerprint
    /\ doc_type = "absent"
    /\ result = NoResult
    /\ needs_ocr = FALSE
    /\ reasons = <<>>
    /\ extracted = NoResult
    /\ extractCalls = 0
    /\ initial = NoResult
    /\ firstNeeds = FALSE
    /\ ocrCalls = 0
    /\ ocrOutcome = NoOcr
    /\ ocrTmp = "none"
    /\ exc = "none"
    /\ ret = NoResult
    /\ retVia = "none"
    /\ runNo = "first"
    /\ prevOutcome = [f \in Files |-> NoOutcome]
    /\ modified = [f \in Files |-> FALSE]
    /\ saved = FALSE
    /\ stateIO = NoStateIO
    /\ HybridIdle
    /\ FnIdle

NextFile ==
    \/ PF_EnterDirect
    \/ PF_EnterDirectRaises
    \/ ProcessFileSteps

Spec == InitFile /\ [][NextFile]_vars

----------------------------------------------------------------------------
(* process_directory, run twice over the same directory and state file *)

\* CachesFingerprint that also caches a partial outcome
CachesFingerprintOrPartial(status) == status \in {"success", "partial"}

\* Line 409: the statuses whose fingerprint process_directory caches
CachesFingerprint(status) == status = "success"

\* What the first run reported for a file (history)
OutcomeOf(outcome) ==
    [ status |-> outcome.status, error |-> outcome.error,
      document_type |-> outcome.document_type ]

RecordFirstRun(f, outcome) ==
    prevOutcome' = IF runNo = "first"
                   THEN [prevOutcome EXCEPT ![f] = OutcomeOf(outcome)]
                   ELSE prevOutcome

\* Lines 391-396: discover, load the state when incremental, results = []
DirStart ==
    /\ pc = "dir_start"
    /\ pstate' = IF incremental THEN LoadState(stateFile) ELSE pstate
    /\ stateIO' = IF incremental THEN [stateIO EXCEPT !.loads = @ + 1] ELSE stateIO
    /\ results' = <<>>
    /\ idx' = 1
    /\ pc' = "dir_loop"
    /\ UNCHANGED <<incremental, mappingCfg, ocrEnabled, runId, fileName, fileVersion,
                   stateFile, entry, runNo, prevOutcome, modified, saved,
                   fingerprint, docVars, ret, retVia, hybVars, fnVars>>

\* Line 398: _compute_file_fingerprint raises for a file that cannot be read;
\* no try block encloses the call
DirFingerprintRaises ==
    /\ pc = "dir_loop"
    /\ idx <= NumFiles
    /\ pc' = "raised"
    /\ UNCHANGED <<dirVars, fingerprint, docVars, ret, retVia, hybVars, fnVars>>

\* Line 400: _is_unchanged raises; no try block encloses the call
DirIsUnchangedRaises ==
    /\ pc = "dir_loop"
    /\ idx <= NumFiles
    /\ incremental
    /\ IsUnchangedRaises(pstate, idx)
    /\ exc' = "attribute_error"
    /\ pc' = "raised"
    /\ UNCHANGED <<dirVars, fingerprint, doc_type, result, needs_ocr, reasons,
                   extracted, extractCalls, initial, firstNeeds, ocrCalls,
                   ocrOutcome, ocrTmp, ret, retVia, hybVars, fnVars>>

\* Lines 400-404: the file is unchanged, a skip outcome is appended
DirSkip ==
    /\ pc = "dir_loop"
    /\ idx <= NumFiles
    /\ LET fp == ComputeFileFingerprint(fileVersion[idx])
           skip_result == BuildSkipResult(fileName[idx], fp, runId)
       IN /\ incremental /\ IsUnchanged(pstate, idx, fp)
          /\ results' = Append(results, Summary(idx, skip_result))
          /\ RecordFirstRun(idx, skip_result)
    /\ idx' = idx + 1
    /\ UNCHANGED <<incremental, mappingCfg, ocrEnabled, runId, fileName, fileVersion,
                   stateFile, entry, pstate, runNo, modified, saved, stateIO, pc,
                   fingerprint, docVars, ret, retVia, hybVars, fnVars>>

\* Line 406: process_file(pdf_path, fingerprint) is called
DirProcess ==
    /\ pc = "dir_loop"
    /\ idx <= NumFiles
    /\ LET fp == ComputeFileFingerprint(fileVersion[idx]) IN
          /\ ~(incremental /\ IsUnchangedRaises(pstate, idx))
          /\ ~(incremental /\ IsUnchanged(pstate, idx, fp))
          /\ fingerprint' = fp
    /\ FreshLocals
    /\ pc' = "pf_classify"
    /\ UNCHANGED <<dirVars, ret, retVia, hybVars, fnVars>>

\* Lines 407-410: the outcome is appended, a success caches the fingerprint;
\* the locals of this iteration and of the call that has returned are gone
DirAppend ==
    /\ pc = "dir_append"
    /\ results' = Append(results, Summary(idx, ret))
    /\ pstate' = IF incremental /\ CachesFingerprint(ret.status)
                 THEN [pstate EXCEPT ![idx] = Entry(fingerprint)]
                 ELSE pstate
    /\ RecordFirstRun(idx, ret)
    /\ idx' = idx + 1
    /\ pc' = "dir_loop"
    /\ FreshLocals
    /\ ret' = NoResult
    /\ retVia' = "none"
    /\ fingerprint' = NoFingerprint
    /\ UNCHANGED <<incremental, mappingCfg, ocrEnabled, runId, fileName, fileVersion,
                   stateFile, entry, runNo, modified, saved, stateIO, hybVars, fnVars>>

\* Lines 412-428: the loop is over; _save_state writes the state when incremental
DirFinish ==
    /\ pc = "dir_loop"
    /\ idx > NumFiles
    /\ stateFile' = IF incremental THEN StateFileObject(pstate) ELSE stateFile
    /\ saved' = IF runNo = "first" THEN incremental ELSE saved
    /\ stateIO' = IF incremental THEN [stateIO EXCEPT !.saves = @ + 1] ELSE stateIO
    /\ pc' = "dir_done"
    /\ UNCHANGED <<incremental, mappingCfg, ocrEnabled, runId, fileName, fileVersion,
                   entry, pstate, results, idx, runNo, prevOutcome, modified,
                   fingerprint, docVars, ret, retVia, hybVars, fnVars>>

\* Lines 82-88: the write fails, _save_state logs a warning and returns; the
\* file keeps its old contents or is left truncated
DirSaveFails ==
    /\ pc = "dir_loop"
    /\ idx > NumFiles
    /\ incremental
    /\ stateFile' \in {stateFile, StateFileCorrupt}
    /\ stateIO' = [stateIO EXCEPT !.saves = @ + 1]
    /\ pc' = "dir_done"
    /\ UNCHANGED <<incremental, mappingCfg, ocrEnabled, runId, fileName, fileVersion,
                   entry, pstate, results, idx, runNo, prevOutcome, modified, saved,
                   fingerprint, docVars, ret, retVia, hybVars, fnVars>>

\* Between the runs a file is rewritten or touched
ModifyFile ==
    /\ pc = "dir_done"
    /\ runNo = "first"
    /\ \E f \in Files, c \in Contents :
          /\ ~modified[f]
          /\ fileVersion' = [fileVersion EXCEPT ![f] = [content |-> c, mtime |-> 2]]
          /\ modified' = [modified EXCEPT ![f] = TRUE]
    /\ UNCHANGED <<incremental, mappingCfg, ocrEnabled, runId, fileName, stateFile,
                   entry, pstate, results, idx, runNo, prevOutcome, saved, stateIO, pc,
                   fingerprint, docVars, ret, retVia, hybVars, fnVars>>

\* The second run: a new Pipeline over the same directory and state file
SecondRun ==
    /\ pc = "dir_done"
    /\ runNo = "first"
    /\ runNo' = "second"
    /\ runId' = 2
    /\ pstate' = EmptyState
    /\ stateIO' = NoStateIO
    /\ pc' = "dir_start"
    /\ UNCHANGED <<incremental, mappingCfg, ocrEnabled, fileName, fileVersion,
                   stateFile, entry, results, idx, prevOutcome, modified, saved,
                   fingerprint, docVars, ret, retVia, hybVars, fnVars>>

\* The state a previous run may have left for the first file
EarlierState ==
    StateFileObject([f \in Files |-> IF f = 1
                                     THEN Entry(ComputeFileFingerprint(FirstVersion))
                                     ELSE NoEntry])

\* State files whose entries are malformed
MalformedState ==
    StateFileObject([f \in Files |->
        IF f = 1 THEN PartialEntry(ComputeFileFingerprint(FirstVersion))
        ELSE IF f = 2 THEN NotADictEntry ELSE FalsyEntry])
HarmlessMalformedState ==
    StateFileObject([f \in Files |->
        IF f = 1 THEN FalsyEntry
        ELSE PartialEntry(ComputeFileFingerprint(FirstVersion))])

InitDir ==
    /\ entry = "process_directory"
    /\ incremental \in BOOLEAN
    /\ mappingCfg = "none"
    /\ ocrEnabled = TRUE
    /\ runId = 1
    /\ fileName = [f \in Files |-> FileNames[((f - 1) % Len(FileNames)) + 1]]
    /\ fileVersion = [f \in Files |-> FirstVersion]
    /\ stateFile \in {StateFileMissing, EarlierState, StateFileCorrupt,
                     MalformedState, HarmlessMalformedState}
    /\ pc = "dir_start"
    /\ pstate = EmptyState
    /\ results = <<>>
    /\ idx = 1
    /\ fingerprint = NoFingerprint
    /\ doc_type = "absent"
    /\ result = NoResult
    /\ needs_ocr = FALSE
    /\ reasons = <<>>
    /\ extracted = NoResult
    /\ extractCalls = 0
    /\ initial = NoResult
    /\ firstNeeds = FALSE
    /\ ocrCalls = 0
    /\ ocrOutcome = NoOcr
    /\ ocrTmp = "none"
    /\ exc = "none"
    /\ ret = NoResult
    /\ retVia = "none"
    /\ runNo = "first"
    /\ prevOutcome = [f \in Files |-> NoOutcome]
    /\ modified = [f \in Files |-> FALSE]
    /\ saved = FALSE
    /\ stateIO = NoStateIO
    /\ HybridIdle
    /\ FnIdle

NextDir ==
    \/ DirStart
    \/ DirFingerprintRaises
    \/ DirIsUnchangedRaises
    \/ DirSkip
    \/ DirProcess
    \/ DirAppend
    \/ DirFinish
    \/ DirSaveFails
    \/ ModifyFile
    \/ SecondRun
    \/ ProcessFileSteps

SpecDir == InitDir /\ [][NextDir]_vars

\* Two incremental runs that start without a state file
InitInc ==
    /\ InitDir
    /\ incremental
    /\ stateFile = StateFileMissing

NextInc ==
    \/ DirStart
    \/ DirFingerprintRaises
    \/ DirSkip
    \/ DirProcess
    \/ DirAppend
    \/ DirFinish
    \/ DirSaveFails
    \/ ModifyFile
    \/ SecondRun
    \/ ProcessFileSteps

SpecInc == InitInc /\ [][NextInc]_vars

----------------------------------------------------------------------------
(* HybridExtractor.extract *)

\* calculate_confidence_score: filled_fields / total_fields, 0.0 for no data;
\* a field is filled when its value is neither None nor ""
\* ScoreFilled without the test v != ""
ScoreFilledNotNone(v) == v.k # "none"

ScoreFilled(v) == v.k # "none" /\ ~(v.k = "str" /\ v.s = <<>>)
CalculateConfidenceScore(data) ==
    IF ~DataTruthy(data) THEN <<0, 1>>
    ELSE << Cardinality({f \in Keys(data.d) : ScoreFilled(data.d[f])}),
            Cardinality(Keys(data.d)) >>

\* confidence > self.confidence_threshold
Above(score, limit) == score[1] * limit[2] > limit[1] * score[2]

\* confidence >= self.confidence_threshold
AtLeast(score, limit) == score[1] * limit[2] >= limit[1] * score[2]

Thresholds == {DefaultThreshold, <<2, 3>>, <<1, 1>>}

\* How the LLM strategy can end: LLMExtractor(...) raises; completion() raises
\* (RuntimeError from extract_with_llm); the response is not JSON (ValueError
\* from extract_with_llm); the response is parsed
LlmEnds == {"ctor_raises", "provider_raises", "invalid_json", "parsed"}

\* What llm_extractor.run_extraction() returns: BaseExtractor.run_extraction
\* catches what extract() raises
LlmRunExtraction(how, d, stats) ==
    IF how = "parsed" THEN ExtractionSuccess(d, stats)
    ELSE [ExtractionFailed(stats) EXCEPT !.error = how]

\* Lines 271-274: the traditional extraction and, on success, its confidence
H_Traditional ==
    /\ hpc = "h_start"
    /\ \E o \in RunExtractionResults(DataSamples, TextStats) :
          /\ trad_result' = o
          /\ IF o.status = "success"
             THEN LET c == CalculateConfidenceScore(o.data) IN
                  /\ confidence' = c
                  /\ hpc' = IF AtLeast(c, threshold) THEN "h_accept" ELSE "h_llm"
             ELSE /\ confidence' = NoScore
                  /\ hpc' = "h_llm"
    /\ UNCHANGED <<pipeVars, fnVars, threshold, llmCalls, llmOutcome, hret>>

\* Lines 277-285: the traditional result is returned
H_Accept ==
    /\ hpc = "h_accept"
    /\ hret' = [trad_result EXCEPT !.meta =
                   MetaUpdate(trad_result.meta,
                              [confidence |-> confidence, method_used |-> "traditional"])]
    /\ hpc' = "h_done"
    /\ UNCHANGED <<pipeVars, fnVars, trad_result, confidence, threshold, llmCalls, llmOutcome>>

\* Lines 293-298 and 308-312: the constructor of LLMExtractor raises, the
\* except clause returns the traditional result
H_LlmConstructorRaises ==
    /\ hpc = "h_llm"
    /\ llmOutcome' = "ctor_raises"
    /\ hret' = [trad_result EXCEPT !.meta =
                   MetaUpdate(trad_result.meta, [llm_fallback_failed |-> "true"])]
    /\ hpc' = "h_done"
    /\ UNCHANGED <<pipeVars, fnVars, trad_result, confidence, threshold, llmCalls>>

\* Lines 300-306: llm_extractor.run_extraction() returns, its result is returned
H_LlmRunExtraction ==
    /\ hpc = "h_llm"
    /\ \E how \in LlmEnds \ {"ctor_raises"}, d \in {D_Full, D_Low}, stats \in TextStats :
          LET llm_result == LlmRunExtraction(how, d, stats) IN
          /\ llmOutcome' = how
          /\ llmCalls' = llmCalls + 1
          /\ hret' = [llm_result EXCEPT !.meta =
                         MetaUpdate(llm_result.meta,
                            [ method_used |-> "llm_fallback",
                              traditional_confidence |->
                                  IF confidence = NoScore THEN <<0, 1>> ELSE confidence ])]
    /\ hpc' = "h_done"
    /\ UNCHANGED <<pipeVars, fnVars, trad_result, confidence, threshold>>

\* No Pipeline is running
PipelineIdle ==
    /\ entry = "none"
    /\ incremental = FALSE
    /\ mappingCfg = "none"
    /\ ocrEnabled = FALSE
    /\ runId = 1
    /\ fileName = [f \in Files |-> FileNames[1]]
    /\ fileVersion = [f \in Files |-> FirstVersion]
    /\ stateFile = StateFileMissing
    /\ pc = "idle"
    /\ pstate = EmptyState
    /\ results = <<>>
    /\ idx = 1
    /\ fingerprint = NoFingerprint
    /\ doc_type = "absent"
    /\ result = NoResult
    /\ needs_ocr = FALSE
    /\ reasons = <<>>
    /\ extracted = NoResult
    /\ extractCalls = 0
    /\ initial = NoResult
    /\ firstNeeds = FALSE
    /\ ocrCalls = 0
    /\ ocrOutcome = NoOcr
    /\ ocrTmp = "none"
    /\ exc = "none"
    /\ ret = NoResult
    /\ retVia = "none"
    /\ runNo = "first"
    /\ prevOutcome = [f \in Files |-> NoOutcome]
    /\ modified = [f \in Files |-> FALSE]
    /\ saved = FALSE
    /\ stateIO = NoStateIO

InitHybrid ==
    /\ PipelineIdle
    /\ FnIdle
    /\ hpc = "h_start"
    /\ trad_result = NoResult
    /\ confidence = NoScore
    /\ threshold \in Thresholds
    /\ llmCalls = 0
    /\ llmOutcome = "none"
    /\ hret = NoResult

NextHybrid ==
    \/ H_Traditional
    \/ H_Accept
    \/ H_LlmConstructorRaises
    \/ H_LlmRunExtraction

SpecHybrid == InitHybrid /\ [][NextHybrid]_vars

----------------------------------------------------------------------------
(* Claims about process_file, checked under Spec *)

Returned == pc \in {"done", "dir_append"}
NoDerivedDocument == {"disabled", "unavailable", "timeout", "exit_nonzero"}

\* C3, as stated: once the working result has a status, the only change of it
\* that ever happens is success to partial.
C3_OnlySuccessToPartial ==
    [][ (result.status # "none" /\ result'.status # "none"
            /\ result'.status # result.status)
        => (result.status = "success" /\ result'.status = "partial") ]_vars

\* C3, amended: the two finalization steps change the status only from success
\* to partial; the only other change is the OCR re-extraction replacing the
\* working result, whose status is then success or failed; a partial status
\* never changes.
C3_StatusChanges ==
    [][ (result.status # "none" /\ result'.status # "none"
            /\ result'.status # result.status)
        => \/ /\ pc \in {"pf_record", "pf_partial"}
              /\ result.status = "success" /\ result'.status = "partial"
           \/ /\ pc = "pf_reextract"
              /\ result.status \in {"success", "failed"}
              /\ result'.status \in {"success", "failed"} ]_vars

\* C3 witness: a re-extraction replaced a successful first result and the
\* finalization made its success partial
C3_Witness ==
    /\ pc = "pf_partial"
    /\ initial.status = "success"
    /\ ocrOutcome.kind = "applied"
    /\ result.status = "partial"

\* C4: when OCRProcessor.run yields no derived document it has not raised, the
\* working result keeps the data and the extraction status of the pre-OCR
\* result, its metadata records the attempt, and the outcome is failed only if
\* the extraction itself failed.
C4_OcrFailureKeepsResult ==
    ocrOutcome.kind \in NoDerivedDocument =>
        /\ ~ocrOutcome.raises /\ ~ocrOutcome.has_path
        /\ pc # "pf_except" /\ exc = "none"
        /\ result.data = initial.data
        /\ (pc \in {"pf_reassess", "pf_record"} => result.status = initial.status)
        /\ result.status \in {initial.status, "partial"}
        /\ (result.status = "failed" => initial.status = "failed")
        /\ result.meta.ocr_attempted =
              (IF ocrOutcome.kind = "disabled" THEN "false" ELSE "true")
        /\ result.meta.ocr_enabled =
              (IF ocrOutcome.kind = "disabled" THEN "false" ELSE "true")
        /\ (ocrOutcome.kind # "disabled" =>
               /\ result.meta.ocr_applied = "false"
               /\ result.meta.ocr_error # "absent")
        /\ (Returned =>
               /\ retVia = "normal"
               /\ ret.data = initial.data
               /\ ret.status = (IF initial.status = "success" THEN "partial"
                                ELSE initial.status)
               /\ ret.meta.ocr_attempted = result.meta.ocr_attempted
               /\ ret.meta.ocr_applied = result.meta.ocr_applied
               /\ ret.meta.ocr_error = result.meta.ocr_error)

\* C4 witness: the OCR subprocess timed out on a document whose extraction had
\* succeeded, and process_file has returned
C4_Witness ==
    /\ Returned
    /\ ocrOutcome.kind = "timeout"
    /\ initial.status = "success"
    /\ ret.status = "partial"
    /\ ret.meta.ocr_error = "timeout"

\* C5: OCRProcessor.run is called at most once for a document, and it is called
\* exactly when the first needs-OCR assessment was true.
C5_OcrAtMostOnce ==
    /\ ocrCalls <= 1
    /\ (ocrCalls = 1 => firstNeeds)
    /\ (pc \in {"pf_reextract", "pf_reassess"} => ocrCalls = 1)
    /\ (pc \in {"pf_record", "pf_partial", "pf_attach"} \/ (Returned /\ retVia = "normal")
            => ocrCalls = (IF firstNeeds THEN 1 ELSE 0))

\* C5 witness: after the re-extraction the document still needs OCR, and
\* process_file moves on to finalization
C5_Witness ==
    /\ pc = "pf_record"
    /\ ocrOutcome.kind = "applied"
    /\ needs_ocr
    /\ ocrCalls = 1

\* C6, as stated: for a type without a mapping schema the mapping step of
\* _run_extraction leaves the extracted data unchanged and records
\* applied = false.
C6_NoSchemaPassThrough ==
    ( /\ pc = "pf_assess"
      /\ extracted.status = "success" /\ DataTruthy(extracted.data)
      /\ LoadedMapping(mappingCfg, doc_type).kind = "absent" )
    => /\ result.data = extracted.data
       /\ result.meta.mapping_applied = "false"

\* C8, as stated: every outcome returned after an extractor ran carries the
\* needs_ocr and needs_ocr_reasons of the last assessment, and needs_ocr = true
\* excludes the status success.
C8_EveryOutcomeAfterExtraction ==
    (Returned /\ extractCalls >= 1) =>
        /\ ret.meta.needs_ocr = (IF reasons # <<>> THEN "true" ELSE "false")
        /\ ret.meta.needs_ocr_reasons = reasons
        /\ (ret.meta.needs_ocr = "true" => ret.status # "success")

\* C8, amended: every outcome returned by the return statement of line 224
\* carries the needs_ocr and needs_ocr_reasons of the last assessment, which is
\* the assessment of the returned data and text statistics; needs_ocr = true
\* excludes the status success; and the step that records them changes a
\* success status to partial when needs_ocr is true and changes no other status.
C8_NormalOutcomeNeedsOcr ==
    /\ []( (Returned /\ retVia = "normal") =>
              /\ ret.meta.needs_ocr = (IF needs_ocr THEN "true" ELSE "false")
              /\ ret.meta.needs_ocr_reasons = reasons
              /\ reasons = AssessNeedsOcr(ret)
              /\ needs_ocr = (reasons # <<>>)
              /\ (ret.meta.needs_ocr = "true" => ret.status # "success") )
    /\ [][ pc = "pf_record" =>
              result'.status = (IF needs_ocr /\ result.status = "success"
                                THEN "partial" ELSE result.status) ]_vars

\* C8 witness: a returned outcome whose re-assessment, after OCR, still found
\* that OCR is needed
C8_Witness ==
    /\ Returned /\ retVia = "normal"
    /\ ocrOutcome.kind = "applied"
    /\ ret.meta.needs_ocr = "true"
    /\ ret.status = "partial"
    /\ ret.meta.needs_ocr_reasons = <<"low_field_coverage">>

ScannedAndEmpty ==
    /\ Returned
    /\ extracted.status = "success"
    /\ extracted.meta.text_pages_with_content = 0
    /\ FilledFields(extracted.data.d) = 0
    /\ ocrOutcome.kind = "unavailable"

ScannedOutcome ==
    /\ ret.status = "partial"
    /\ ret.meta.needs_ocr = "true"
    /\ ret.meta.needs_ocr_reasons = <<"no_text_extracted", "empty_data">>

\* C9, as stated: whatever the file name, a document whose extraction succeeds
\* with no page of text and no non-empty field, the OCR tool being unavailable,
\* is returned partial with reasons no_text_extracted and empty_data.
C9_ScannedWhateverFilename == ScannedAndEmpty => ScannedOutcome

\* C9, amended: the same, for file names from which no contract number can be
\* inferred.
C9_ScannedNoContractInName ==
    (ScannedAndEmpty /\ InferContractNumberFromFilename(fileName[idx]) = NoMatch)
        => ScannedOutcome

\* C9 witness: such a document, whose data holds only empty fields
C9_Witness ==
    /\ ScannedAndEmpty
    /\ InferContractNumberFromFilename(fileName[idx]) = NoMatch
    /\ extracted.data = DataDict(D_Blank)
    /\ ScannedOutcome

----------------------------------------------------------------------------
(* Claims about process_directory, checked under SpecDir *)

OutcomeStatuses == {"success", "partial", "failed", "skipped"}
InProcessFile == pc \in {"pf_classify", "pf_extract", "pf_assess", "pf_ocr",
                         "pf_reextract", "pf_reassess", "pf_record", "pf_partial",
                         "pf_attach", "pf_except", "dir_append"}

\* C1, as stated: process_directory does not raise for a per-document failure;
\* when it ends every discovered file has exactly one outcome, in order, with
\* a status among success, partial, failed, skipped; a failed outcome carries
\* an error message.
C1_OneOutcomePerFileNoRaise ==
    /\ pc # "raised"
    /\ Len(results) <= NumFiles
    /\ \A i \in 1..Len(results) :
          /\ results[i].file = i
          /\ results[i].status \in OutcomeStatuses
          /\ (results[i].status = "failed" => results[i].error # "absent")
    /\ (pc = "dir_done" => Len(results) = NumFiles)

\* The second run, reading the state file the first run wrote, has started
\* its loop; the fingerprint of f is the one of the first run
SecondRunUnchanged(f) ==
    /\ incremental
    /\ saved
    /\ runNo = "second"
    /\ pc # "dir_start"
    /\ ~modified[f]

\* The first-run outcomes after which the state holds the file's fingerprint
CachedByFirstRun(f) ==
    \/ prevOutcome[f].status = "success"
    \/ prevOutcome[f].status = "skipped" /\ prevOutcome[f].error = "unchanged"

SkippedAsUnchanged(f) ==
    /\ ~(InProcessFile /\ idx = f)
    /\ \A i \in 1..Len(results) :
          results[i].file = f =>
              results[i].status = "skipped" /\ results[i].error = "unchanged"

----------------------------------------------------------------------------
(* Claims about HybridExtractor.extract, checked under SpecHybrid *)

\* C7, as stated: when the LLM strategy fails (constructor, provider call or
\* JSON parsing) the traditional result is returned, status and data unchanged,
\* with llm_fallback_failed = true; a failed LLM result is never returned.
C7_LlmFailureFallsBack ==
    (hpc = "h_done" /\ llmOutcome \in {"ctor_raises", "provider_raises", "invalid_json"})
    => /\ hret.status = trad_result.status
       /\ hret.data = trad_result.data
       /\ hret.meta.llm_fallback_failed = "true"
       /\ hret.meta.method_used # "llm_fallback"

----------------------------------------------------------------------------
(* Claims about the contract number, checked under Spec *)

DA00123 == <<"D", "A", "0", "0", "1", "2", "3">>

\* The contract number a file name holds, spelled out for the model's names
NameHolds(name) ==
    IF name = FN_AwardLetter THEN DA00123
    ELSE IF name = FN_BidTabs THEN <<"1", "2", "3", "4", "5", "6", "7", "8">>
    ELSE IF name = FN_BidSummary THEN <<"D", "A", "0", "0", "5", "7", "3">>
    ELSE NoMatch

\* The normalization steps taken alone, from the result _run_extraction
\* returned: a non-empty contract_number and its provenance are kept; an absent
\* or empty one is filled with the upper-cased number of the file name, with
\* source 'filename', when the name holds one; nothing changes otherwise; and
\* a returned record has contract_number_source = 'filename' only with the
\* number of the name.
NormalizationStepProvenance ==
    /\ [][ (pc \in {"pf_assess", "pf_reassess"} /\ ~result.data.none) =>
             LET cn == result.data.d["contract_number"]
                 held == NameHolds(fileName[idx])
             IN /\ ~result'.data.none
                /\ (Truthy(cn) =>
                       /\ result'.data.d["contract_number"] = cn
                       /\ result'.meta.contract_number_source =
                              result.meta.contract_number_source)
                /\ ((~Truthy(cn) /\ held # NoMatch) =>
                       /\ result'.data.d["contract_number"] = VStr(held)
                       /\ result'.meta.contract_number_source = "filename")
                /\ ((~Truthy(cn) /\ held = NoMatch) =>
                       /\ result'.data.d["contract_number"] = cn
                       /\ result'.meta.contract_number_source =
                              result.meta.contract_number_source) ]_vars
    /\ []( (Returned /\ retVia = "normal" /\ ~ret.data.none) =>
              /\ ret.data = result.data
              /\ (NameHolds(fileName[idx]) # NoMatch =>
                     Truthy(ret.data.d["contract_number"]))
              /\ (ret.meta.contract_number_source = "filename" =>
                     ret.data.d["contract_number"] = VStr(NameHolds(fileName[idx])))
              /\ (ret.meta.contract_number_source # "filename" =>
                     ret.meta.contract_number_source = "absent") )

\* C11, as stated: in every outcome whose data is a record, a non-empty
\* contract_number that the extraction produced is the returned one (here for
\* outcomes whose data come from the first extraction), and
\* contract_number_source = 'filename' only goes with a number that the
\* extraction did not produce.
C11_ExtractedNumberKept ==
    ( /\ Returned /\ retVia = "normal" /\ ~ret.data.none
      /\ ocrOutcome.kind # "applied"
      /\ extracted.status = "success"
      /\ Truthy(extracted.data.d["contract_number"]) )
    => /\ ret.data.d["contract_number"] = extracted.data.d["contract_number"]
       /\ ret.meta.contract_number_source # "filename"

----------------------------------------------------------------------------
(* Single calls of the pure helpers *)

SchemaKeys == {"mapping_name", "fields", "aliases", "list_fields"}
ItemAliases == ListSchema("bidders", <<"bidder_name", "total_bid_amount">>,
                          << <<"company_name", "bidder_name">> >>)
WinnerAlias == <<"winner_name", "awarded_to">>

\* Schemas with aliases: of a field and of a list field's elements; an alias
\* that is a field itself; two aliases of one field; an alias of a name that
\* is not among the fields; an alias of a list field
AliasSchemas ==
    { Schema("both", <<"awarded_to", "bidders">>, <<WinnerAlias>>,
             <<ItemAliases>>, SchemaKeys),
      Schema("alias_is_field", <<"awarded_to", "winner_name">>, <<WinnerAlias>>,
             <<>>, SchemaKeys),
      Schema("two_aliases", <<"awarded_to">>,
             <<WinnerAlias, <<"description", "awarded_to">> >>, <<>>, SchemaKeys),
      Schema("not_a_field", <<"description">>, <<WinnerAlias>>, <<>>, SchemaKeys),
      Schema("list_alias", <<"bidders">>, << <<"bid_items", "bidders">> >>,
             <<ItemAliases>>, SchemaKeys) }

\* Raw records: the canonical field and its alias absent, None, empty or set
RawItems ==
    { [isdict |-> TRUE,
       d |-> [f \in ItemFieldNames |->
                 IF f = "bidder_name" THEN b
                 ELSE IF f = "company_name" THEN c ELSE VAbsent]] :
        b \in {VAbsent, VNone, VStr(S_X)}, c \in {VAbsent, VStr(S_Acme)} }
\* Lists of several elements, some of them not records
MixedLists ==
    { VList(<<AcmeItem, NonRecordItem, AliasItem>>), VList(<<NonRecordItem>>),
      VList(<<AliasItem, AcmeItem>>), VList(<<>>) }
RawRecords ==
    { [f \in FieldNames |->
          CASE f = "awarded_to" -> t
            [] f = "winner_name" -> a
            [] f = "description" -> ds
            [] f = "bidders" -> l
            [] f = "bid_items" -> o
            [] OTHER -> VAbsent] :
        t \in {VAbsent, VNone, VStr(<<>>), VStr(S_X)},
        a \in {VAbsent, VNone, VStr(S_Acme)},
        ds \in {VAbsent, VStr(S_C1)},
        l \in {VAbsent} \cup {VList(<<i>>) : i \in RawItems} \cup MixedLists,
        o \in {VAbsent, VList(<<>>)} }

ApplyMappingCalls ==
    { [data |-> DataDict(raw), mapping |-> ResolveEntry(sch, "external")] :
        raw \in RawRecords, sch \in AliasSchemas }

\* File names: up to MaxFragments pieces put one after the other
\* ---- PostgresLoader.load_bidders (src/loaders/postgres_loader.py) ----

DigitSeq == <<"0", "1", "2", "3", "4", "5", "6", "7", "8", "9">>

RECURSIVE NatStr(_)
\* str(n) of a non-negative int
NatStr(n) ==
    IF n < 10 THEN <<DigitSeq[n + 1]>>
    ELSE NatStr(n \div 10) \o <<DigitSeq[(n % 10) + 1]>>

\* A total_bid_amount: None, a float (what the extractors produce) or a
\* Decimal of scale 2 (what a Numeric(15, 2) column returns), in cents
AmountNone == [k |-> "none", cents |-> 0]
AmountFloat(c) == [k |-> "float", cents |-> c]
AmountDecimal(c) == [k |-> "decimal", cents |-> c]

\* str(total_amount): the shortest repr of a float, both decimals of a Decimal
AmountStr(a) ==
    LET whole == NatStr(a.cents \div 100)
        d1 == DigitSeq[((a.cents % 100) \div 10) + 1]
        d2 == DigitSeq[(a.cents % 10) + 1]
    IN IF a.k = "decimal" THEN whole \o <<".", d1, d2>>
       ELSE IF a.cents % 10 = 0 THEN whole \o <<".", d1>>
       ELSE whole \o <<".", d1, d2>>

RECURSIVE LStrip(_)
LStrip(s) == IF s # <<>> /\ Head(s) = " " THEN LStrip(Tail(s)) ELSE s

RECURSIVE RStrip(_)
RStrip(s) ==
    IF s # <<>> /\ s[Len(s)] = " " THEN RStrip(SubSeq(s, 1, Len(s) - 1)) ELSE s

\* str.strip()
Strip(s) == RStrip(LStrip(s))

\* name or ""
NameOrEmpty(name) == IF name.k = "str" THEN name.s ELSE <<>>

\* _bidder_key(name, total_amount)
BidderKey(name, total_amount) ==
    Upper(Strip(NameOrEmpty(name))) \o <<"|">> \o
        (IF total_amount.k # "none" THEN AmountStr(total_amount) ELSE <<>>)

RECURSIVE LoadBiddersLoop(_, _, _, _, _)
\* the for loop of load_bidders: the indices of the bidders added to the
\* session; Bidder(**bidder_data) raises on a key the model does not have,
\* which the loop catches
LoadBiddersLoop(bidders, i, existing_keys, pending_keys, added) ==
    IF i > Len(bidders) THEN added
    ELSE LET bidder_key == BidderKey(bidders[i].bidder_name,
                                     bidders[i].total_bid_amount)
         IN IF bidder_key \in existing_keys \/ bidder_key \in pending_keys
            THEN LoadBiddersLoop(bidders, i + 1, existing_keys, pending_keys, added)
            ELSE IF ~bidders[i].accepted
            THEN LoadBiddersLoop(bidders, i + 1, existing_keys, pending_keys, added)
            ELSE LoadBiddersLoop(bidders, i + 1, existing_keys,
                                 pending_keys \cup {bidder_key}, Append(added, i))

\* load_bidders(contract_id, bidders) on a session holding the rows `existing`
\* of that contract; `commit_ok` is whether session.commit() returns
LoadBidders(existing, bidders, commit_ok) ==
    LET existing_keys == {BidderKey(VStr(row.bidder_name), row.total_bid_amount) :
                              row \in existing}
        added == LoadBiddersLoop(bidders, 1, existing_keys, {}, <<>>)
    IN [added |-> added,
        rolled_back |-> ~commit_ok,
        count |-> IF commit_ok THEN Len(added) ELSE 0]

\* ---- S3Loader.move_source (src/loaders/s3_loader.py) ----

RECURSIVE RStripSlash(_)
\* str.rstrip('/')
RStripSlash(s) ==
    IF s # <<>> /\ s[Len(s)] = "/" THEN RStripSlash(SubSeq(s, 1, Len(s) - 1)) ELSE s

RECURSIVE AfterLastSlash(_)
AfterLastSlash(s) ==
    IF s = <<>> \/ s[Len(s)] = "/" THEN <<>>
    ELSE Append(AfterLastSlash(SubSeq(s, 1, Len(s) - 1)), s[Len(s)])

\* Path(key).name
PathName(key) == AfterLastSlash(RStripSlash(key))

\* target_prefix with both prefixes taken for the processed one
TargetPrefixAlwaysProcessed(success, processed_prefix, error_prefix) ==
    processed_prefix

\* target_prefix = self.processed_prefix if success else self.error_prefix
TargetPrefix(success, processed_prefix, error_prefix) ==
    IF success THEN processed_prefix ELSE error_prefix

\* new_key of move_source(key, success)
NewKey(call) ==
    RStripSlash(TargetPrefix(call.success, call.processed_prefix, call.error_prefix))
        \o <<"/">> \o PathName(call.key)

CopyObject(source, key) == [op |-> "copy_object", source |-> source, key |-> key]
DeleteObject(key) == [op |-> "delete_object", source |-> <<>>, key |-> key]

MaxFragments == 3
Fragments ==
    { <<"I", "n", "v", "i", "t", "a", "t", "i", "o", "n">>,
      <<"B", "i", "d">>,
      <<"B", "I", "D">>,
      <<"T", "a", "b">>,
      <<"A", "w", "a", "r", "d">>,
      <<"L", "e", "t", "t", "e", "r">>,
      <<"I", "t", "e", "m">>,
      <<"C">>,
      <<"S", "u", "m", "m", "a", "r", "y">>,
      <<"B", "i", "d", "s", " ", "A", "s">>,
      <<" ", "R", "e", "a", "d">>,
      <<"b", "i", "d", "s", "_", "a", "s">>,
      <<"_", "r", "e", "a", "d">>,
      <<" ">>,
      <<"_">>,
      <<"s">>,
      <<"O", "t", "h", "e", "r">>,
      <<".", "p", "d", "f">> }
RECURSIVE NamesOf(_)
NamesOf(n) ==
    IF n = 0 THEN {<<>>}
    ELSE LET shorter == NamesOf(n - 1) IN
         shorter \cup {s \o f : s \in shorter, f \in Fragments}
GeneratedNames == NamesOf(MaxFragments)

\* Names that hold the keywords of two rules: two names of the classifier's
\* tests, one after the other
TestNames ==
    { <<"I", "n", "v", "i", "t", "a", "t", "i", "o", "n", " ", "t", "o", " ", "B", "i", "d", ".", "p", "d", "f">>,
      <<"B", "i", "d", " ", "T", "a", "b", "s", ".", "p", "d", "f">>,
      <<"A", "w", "a", "r", "d", " ", "L", "e", "t", "t", "e", "r", ".", "p", "d", "f">>,
      <<"I", "t", "e", "m", " ", "C", " ", "R", "e", "p", "o", "r", "t", ".", "p", "d", "f">>,
      <<"B", "i", "d", " ", "S", "u", "m", "m", "a", "r", "y", ".", "p", "d", "f">>,
      <<"B", "i", "d", "s", " ", "A", "s", " ", "R", "e", "a", "d", ".", "p", "d", "f">>,
      <<"O", "t", "h", "e", "r", ".", "p", "d", "f">> }
CombinedNames == {x \o y : x \in TestNames, y \in TestNames}

\* DocumentClassifier(name).classify_filename_only(), and a second call on
\* the same classifier
CallClassifyFilenameOnly ==
    /\ fn = "classify_filename_only"
    /\ \/ fnpc = "call" /\ fnret' = <<ClassifyByFilename(arg)>> /\ fnpc' = "returned"
       \/ fnpc = "returned" /\ fnret' = Append(fnret, ClassifyByFilename(arg))
                            /\ fnpc' = "returned_again"
    /\ UNCHANGED <<pipeVars, hybVars, fn, arg>>

\* Records of up to three fields, each absent, None, "", blank, a string, an
\* empty list or a list; a field to replace and the value that replaces it
ScoreFields == {"contract_number", "description", "bidders"}
ScoreValues == {VAbsent, VNone, VStr(<<>>), VStr(S_Blank), VStr(S_X), VList(<<>>),
                VList(<<AcmeItem>>)}
ScoreRecords ==
    {DataNone} \cup
    { DataDict([f \in FieldNames |-> IF f \in ScoreFields THEN r[f] ELSE VAbsent]) :
        r \in [ScoreFields -> ScoreValues] }
NonEmptyValues == {VStr(S_X), VList(<<AcmeItem>>)}
NullOrEmptyValues == {VNone, VStr(<<>>), VStr(S_Blank), VList(<<>>)}
ScoreCalls == [data : ScoreRecords, field : ScoreFields, value : NonEmptyValues]

\* calculate_confidence_score(data), and a second call on the record in which
\* the null or empty value of arg.field is replaced by arg.value
CallCalculateConfidenceScore ==
    /\ fn = "calculate_confidence_score"
    /\ \/ /\ fnpc = "call"
          /\ fnret' = <<CalculateConfidenceScore(arg.data)>>
          /\ fnpc' = "returned"
       \/ /\ fnpc = "returned"
          /\ ~arg.data.none
          /\ arg.data.d[arg.field] \in NullOrEmptyValues
          /\ fnret' = Append(fnret, CalculateConfidenceScore(
                         DataDict([arg.data.d EXCEPT ![arg.field] = arg.value])))
          /\ fnpc' = "returned_again"
    /\ UNCHANGED <<pipeVars, hybVars, fn, arg>>

\* Results handed to _assess_needs_ocr: text statistics absent, zero, around
\* the minimum length; data None or a record whose scalar fields are absent,
\* None, blank or set and whose list fields are absent, None, empty or filled
AssessTextStats == { <<-1, -1>>, <<0, 0>>, <<MinTextLength - 1, 1>>,
                     <<MinTextLength, 1>>, <<200, 0>>, <<200, 1>> }
AssessRecords ==
    { [f \in FieldNames |->
          CASE f = "contract_number" -> c
            [] f = "description" -> ds
            [] f = "bidders" -> b
            [] f = "bid_items" -> i
            [] OTHER -> VAbsent] :
        c \in {VAbsent, VNone, VStr(S_C1)},
        ds \in {VAbsent, VStr(S_Blank), VStr(S_X)},
        b \in {VAbsent, VNone, VList(<<>>), VList(<<AcmeItem>>)},
        i \in {VAbsent, VList(<<>>), VList(<<AcmeItem>>)} }
AssessCalls == RunExtractionResults(AssessRecords, AssessTextStats)

\* _assess_needs_ocr(result)
CallAssessNeedsOcr ==
    /\ fnpc = "call"
    /\ fn = "_assess_needs_ocr"
    /\ LET rs == AssessNeedsOcr(arg) IN
          fnret' = [needs_ocr |-> Len(rs) > 0, reasons |-> rs]
    /\ fnpc' = "returned"
    /\ UNCHANGED <<pipeVars, hybVars, fn, arg>>

\* DocumentClassifier(name).classify() on a PDF whose first page is `page`
ClassifyCalls ==
    [name : Range(FileNames) \cup NamesOf(1), page : FirstPages]
CallClassify ==
    /\ fnpc = "call"
    /\ fn = "classify"
    /\ fnret' = [type |-> Classify(arg.name, arg.page), reads |-> ClassifyReads(arg.name)]
    /\ fnpc' = "returned"
    /\ UNCHANGED <<pipeVars, hybVars, fn, arg>>

\* self.results: up to MaxOutcomes outcomes, of which get_summary reads the
\* status and the document_type
MaxOutcomes == 3
SummaryTypes == {"award_letter", "bid_tabs", "unknown"}
OutcomeLists ==
    UNION { [1..n -> [status : OutcomeStatuses, document_type : SummaryTypes]] :
              n \in 0..MaxOutcomes }

CountStatus(outcomes, status) ==
    Cardinality({i \in 1..Len(outcomes) : outcomes[i].status = status})
OfType(outcomes, t) == SelectSeq(outcomes, LAMBDA r : r.document_type = t)

\* get_summary; by_document_type has a key for the types with total > 0
GetSummary(outcomes) ==
    IF outcomes = <<>> THEN [empty |-> TRUE]
    ELSE [ empty |-> FALSE,
           total_files |-> Len(outcomes),
           successful |-> CountStatus(outcomes, "success"),
           failed |-> CountStatus(outcomes, "failed"),
           skipped |-> CountStatus(outcomes, "skipped"),
           by_document_type |->
               [t \in DocumentType |->
                   [ total |-> Len(OfType(outcomes, t)),
                     successful |-> CountStatus(OfType(outcomes, t), "success"),
                     failed |-> CountStatus(OfType(outcomes, t), "failed") ]] ]

\* Pipeline.get_summary() with self.results = arg
CallGetSummary ==
    /\ fnpc = "call"
    /\ fn = "get_summary"
    /\ fnret' = GetSummary(arg)
    /\ fnpc' = "returned"
    /\ UNCHANGED <<pipeVars, hybVars, fn, arg>>

MaxBidders == 2

S_ACME == <<"A", "C", "M", "E">>
S_acme == <<" ", "a", "c", "m", "e", " ">>

BidderNames == {VNone, VStr(S_ACME), VStr(S_acme)}
BidderAmounts == {AmountNone, AmountFloat(10000), AmountFloat(20050)}

\* The bidder dicts of a call, one of them with a key Bidder() does not accept
BidderDicts ==
    [bidder_name : BidderNames, total_bid_amount : BidderAmounts, accepted : {TRUE}]
    \cup {[bidder_name |-> VStr(S_ACME), total_bid_amount |-> AmountFloat(20050),
           accepted |-> FALSE]}

\* The rows already stored for the contract: none, a row read back from the
\* Numeric column, a row of the test's fake session, a row without an amount
ExistingRows ==
    {{},
     {[bidder_name |-> S_ACME, total_bid_amount |-> AmountDecimal(10000)]},
     {[bidder_name |-> S_ACME, total_bid_amount |-> AmountFloat(10000)]},
     {[bidder_name |-> S_ACME, total_bid_amount |-> AmountNone]}}

BidderLists == UNION {[1..n -> BidderDicts] : n \in 0..MaxBidders}

LoadBiddersCalls ==
    [existing : ExistingRows, bidders : BidderLists, commit_ok : BOOLEAN]

CallLoadBidders ==
    /\ fnpc = "call"
    /\ fn = "load_bidders"
    /\ fnret' = LoadBidders(arg.existing, arg.bidders, arg.commit_ok)
    /\ fnpc' = "returned"
    /\ UNCHANGED <<pipeVars, hybVars, fn, arg>>

S_raw_a == <<"r", "a", "w", "/", "a", ".", "p", "d", "f">>
S_raw_x_b == <<"r", "a", "w", "/", "x", "/", "b", ".", "p", "d", "f">>
S_c == <<"c", ".", "p", "d", "f">>
S_processed == <<"p", "r", "o", "c", "e", "s", "s", "e", "d">>
S_error == <<"e", "r", "r", "o", "r">>

SourceKeys == {S_raw_a, S_raw_x_b, S_c}
ProcessedPrefixes == {S_processed \o <<"/">>, S_processed, S_processed \o <<"/", "/">>}
ErrorPrefixes == {S_error \o <<"/">>, S_error}

MoveSourceCalls ==
    [key : SourceKeys, success : BOOLEAN,
     processed_prefix : ProcessedPrefixes, error_prefix : ErrorPrefixes]

\* move_source up to the return of copy_object: the requests issued so far,
\* the keys in the bucket, the value returned
MoveSourceCopy ==
    /\ fnpc = "call"
    /\ fn = "move_source"
    /\ fnret' = [log |-> <<CopyObject(arg.key, NewKey(arg))>>,
                 objects |-> {arg.key, NewKey(arg)},
                 value |-> <<>>]
    /\ fnpc' = "copied"
    /\ UNCHANGED <<pipeVars, hybVars, fn, arg>>

\* copy_object raises, and move_source with it
MoveSourceCopyFails ==
    /\ fnpc = "call"
    /\ fn = "move_source"
    /\ fnret' = [log |-> <<CopyObject(arg.key, NewKey(arg))>>,
                 objects |-> {arg.key},
                 value |-> <<>>]
    /\ fnpc' = "raised"
    /\ UNCHANGED <<pipeVars, hybVars, fn, arg>>

\* delete_object, and the return of new_key
MoveSourceDelete ==
    /\ fnpc = "copied"
    /\ fn = "move_source"
    /\ fnret' = [log |-> Append(fnret.log, DeleteObject(arg.key)),
                 objects |-> fnret.objects \ {arg.key},
                 value |-> NewKey(arg)]
    /\ fnpc' = "returned"
    /\ UNCHANGED <<pipeVars, hybVars, fn, arg>>

\* delete_object raises, and move_source with it
MoveSourceDeleteFails ==
    /\ fnpc = "copied"
    /\ fn = "move_source"
    /\ fnret' = [fnret EXCEPT !.log = Append(fnret.log, DeleteObject(arg.key))]
    /\ fnpc' = "raised"
    /\ UNCHANGED <<pipeVars, hybVars, fn, arg>>

\* apply_mapping(data, mapping)
CallApplyMapping ==
    /\ fnpc = "call"
    /\ fn = "apply_mapping"
    /\ fnret' = ApplyMapping(arg.data, arg.mapping)
    /\ fnpc' = "returned"
    /\ UNCHANGED <<pipeVars, hybVars, fn, arg>>

InitFn ==
    /\ PipelineIdle
    /\ HybridIdle
    /\ fnpc = "call"
    /\ fnret = <<>>
    /\ \/ fn = "apply_mapping" /\ arg \in ApplyMappingCalls
       \/ fn = "classify_filename_only" /\ arg \in GeneratedNames \cup CombinedNames
       \/ fn = "calculate_confidence_score" /\ arg \in ScoreCalls
       \/ fn = "_assess_needs_ocr" /\ arg \in AssessCalls
       \/ fn = "classify" /\ arg \in ClassifyCalls
       \/ fn = "get_summary" /\ arg \in OutcomeLists
       \/ fn = "load_bidders" /\ arg \in LoadBiddersCalls
       \/ fn = "move_source" /\ arg \in MoveSourceCalls

NextFn ==
    \/ CallApplyMapping
    \/ CallClassifyFilenameOnly
    \/ CallCalculateConfidenceScore
    \/ CallAssessNeedsOcr
    \/ CallClassify
    \/ CallGetSummary
    \/ CallLoadBidders
    \/ MoveSourceCopy
    \/ MoveSourceCopyFails
    \/ MoveSourceDelete
    \/ MoveSourceDeleteFails

SpecFn == InitFn /\ [][NextFn]_vars

----------------------------------------------------------------------------
(* Claims about the pure helpers, checked under SpecFn *)

Present(d, f) == d[f].k # "absent"

IsRecordElement(item) == item.isdict
RecordElements(items) == SelectSeq(items, IsRecordElement)

\* Every canonical field of `schema` that has an alias, in dict `raw` and in
\* the mapped dict `mapped`; a canonical field holding a list whose elements
\* are mapped one by one (`lists`) is compared element by element in C12
AliasPriority(schema, lists, raw, mapped) ==
    \A i \in 1..Len(schema.aliases) :
        LET alias == schema.aliases[i][1]
            target == schema.aliases[i][2]
        IN (/\ target \in Range(schema.fields)
            /\ ~(target \in lists /\ raw[target].k \in {"list", "absent"})) =>
              /\ (Present(raw, target) => mapped[target] = raw[target])
              /\ (mapped[target] # raw[target] =>
                     /\ ~Present(raw, target)
                     /\ \E j \in 1..Len(schema.aliases) :
                           /\ schema.aliases[j][2] = target
                           /\ mapped[target] = raw[schema.aliases[j][1]])

\* C12: in the output of apply_mapping, and in every mapped element of a list
\* field, a canonical field present in the raw record has its own value, and
\* it has another value only when it is absent from the raw record, which is
\* then the value of one of its aliases.
C12_CanonicalBeforeAlias ==
    (fnpc = "returned" /\ fn = "apply_mapping") =>
        LET raw == arg.data.d
            mapped == fnret.data.d
            lists == {arg.mapping.list_fields[i].name :
                         i \in 1..Len(arg.mapping.list_fields)}
        IN /\ AliasPriority(arg.mapping, lists, raw, mapped)
           /\ \A i \in 1..Len(arg.mapping.list_fields) :
                 LET lm == arg.mapping.list_fields[i] IN
                 raw[lm.name].k = "list" =>
                    /\ mapped[lm.name].k = "list"
                    /\ Len(mapped[lm.name].l) = Len(RecordElements(raw[lm.name].l))
                    /\ \A n \in 1..Len(RecordElements(raw[lm.name].l)) :
                          AliasPriority(lm, {}, RecordElements(raw[lm.name].l)[n].d,
                                        mapped[lm.name].l[n].d)

\* C12 witness: the record and its list element hold both the canonical field
\* and the alias, with different values; the output holds the canonical ones
C12_Witness ==
    /\ fnpc = "returned" /\ fn = "apply_mapping"
    /\ arg.data.d["awarded_to"] = VStr(S_X)
    /\ arg.data.d["winner_name"] = VStr(S_Acme)
    /\ fnret.data.d["awarded_to"] = VStr(S_X)
    /\ Len(arg.data.d["bidders"].l) = 1
    /\ arg.data.d["bidders"].l[1].isdict
    /\ arg.data.d["bidders"].l[1].d["bidder_name"] = VStr(S_X)
    /\ arg.data.d["bidders"].l[1].d["company_name"] = VStr(S_Acme)
    /\ fnret.data.d["bidders"].l[1].d["bidder_name"] = VStr(S_X)

\* C13: every result HybridExtractor.extract returns has both method_used and
\* traditional_confidence in its metadata.
C13_MethodAndConfidenceRecorded ==
    hpc = "h_done" =>
        /\ hret.meta.method_used # "absent"
        /\ hret.meta.traditional_confidence # NoScore

\* C14: an incremental run of process_directory does not raise because of
\* what the state file holds; while the state file could not be loaded no
\* file is skipped as unchanged and, at the end of the loop, every file has
\* been processed; a failed write of the state does not raise.
C14_StateFileNeverFatal ==
    /\ [](incremental => ~(pc = "raised" /\ exc = "attribute_error"))
    /\ []((incremental /\ runNo = "first" /\ pc # "dir_done"
                       /\ stateFile.kind # "object") =>
             /\ \A i \in 1..Len(results) : results[i].error # "unchanged"
             /\ (pc = "dir_loop" /\ idx > NumFiles => Len(results) = NumFiles))
    /\ [][(pc = "dir_loop" /\ idx > NumFiles) => pc' # "raised"]_vars

\* C15: once process_file has classified the document, a type other than
\* Unknown has an extractor and is not skipped for lack of one; for Unknown
\* process_file has returned status 'skipped' with the error 'No extractor
\* available for this document type', and no extraction, OCR or mapping ran.
C15_SkippedWithoutExtractor ==
    (entry = "process_file" /\ doc_type # "absent") =>
        /\ (doc_type # "unknown" => HasExtractor(doc_type) /\ retVia # "skip")
        /\ (doc_type = "unknown" =>
               /\ ~HasExtractor(doc_type)
               /\ Returned /\ retVia = "skip"
               /\ ret.status = "skipped"
               /\ ret.error = "No extractor available for this document type"
               /\ ret.document_type = "unknown"
               /\ extractCalls = 0 /\ extracted = NoResult
               /\ ocrCalls = 0 /\ ocrOutcome = NoOcr
               /\ ret.meta.mapping_applied = "absent")

\* C15 witness: a file of unknown type has been skipped
C15_Witness ==
    /\ entry = "process_file" /\ Returned /\ retVia = "skip"
    /\ doc_type = "unknown" /\ ret.status = "skipped"

\* C16: every outcome in the list process_directory builds carries the run
\* identifier of the Pipeline that runs.
C16_EveryOutcomeHasRunId ==
    (entry = "process_directory" /\ pc # "dir_start") =>
        \A i \in 1..Len(results) : results[i].run_id = runId

\* The document types whose keyword rule matches a lower-cased file name
MatchingRules(filename) ==
    { t \in DocumentType :
        \/ t = "invitation_to_bid" /\ Contains(filename, KW_invitation)
                                   /\ Contains(filename, KW_bid)
        \/ t = "bid_tabs" /\ \E k \in {KW_bid_tab_sp, KW_bid_tab_us, KW_bidtab} :
                                Contains(filename, k)
        \/ t = "award_letter" /\ Contains(filename, KW_award)
                              /\ Contains(filename, KW_letter)
        \/ t = "item_c_report" /\ \E k \in {KW_item_c_sp, KW_item_c_us, KW_itemc} :
                                     Contains(filename, k)
        \/ t = "bid_summary" /\ \E k \in {KW_bid_summary, KW_bidsummary} :
                                   Contains(filename, k)
        \/ t = "bids_as_read" /\ \E k \in {KW_bids_as_read_sp, KW_bids_as_read_us} :
                                    Contains(filename, k) }

\* C17: classify_filename_only returns one DocumentType for every file name,
\* the same on a second call, and Unknown exactly when no keyword rule
\* matches the lower-cased name.
C17_FilenameClassification ==
    (fn = "classify_filename_only" /\ fnpc # "call") =>
        /\ \A i \in 1..Len(fnret) : fnret[i] \in DocumentType /\ fnret[i] = fnret[1]
        /\ (fnret[1] = "unknown" <=> MatchingRules(Lower(arg)) = {})

\* C17 witnesses: a name in capitals that a rule matches, called twice
C17_Witness ==
    /\ fn = "classify_filename_only" /\ fnpc = "returned_again"
    /\ arg # Lower(arg)
    /\ fnret = <<"bids_as_read", "bids_as_read">>

Populated(res) ==
    IF res.data.none THEN {}
    ELSE {f \in Keys(res.data.d) :
             LET v == res.data.d[f] IN
             v # VNone /\ v # VList(<<>>) /\ ~(v.k = "str" /\ IsBlank(v.s))}
NoText(res) ==
    \/ res.meta.text_pages_with_content \in {-1, 0}
    \/ res.meta.text_length < MinTextLength
ListValue(res, f) == IF res.data.none THEN VAbsent ELSE res.data.d[f]
AssessReturned == fn = "_assess_needs_ocr" /\ fnpc = "returned"
AssessReasonsUpToCoverage ==
    /\ fnret.needs_ocr <=> fnret.reasons # <<>>
    /\ Range(fnret.reasons) \subseteq
          {"no_text_extracted", "empty_data", "low_field_coverage"}
    /\ "no_text_extracted" \in Range(fnret.reasons) <=> NoText(arg)
    /\ "empty_data" \in Range(fnret.reasons) <=> Populated(arg) = {}

\* C19, as stated: needs_ocr iff a reason fired; no_text_extracted iff no page
\* has text or the text is shorter than 50; empty_data iff no field is
\* populated; low_field_coverage iff at most one field is populated and
\* bidders and bid_items are both empty, an absent list field being empty.
C19_AbsentListCountsAsEmpty ==
    AssessReturned =>
        /\ AssessReasonsUpToCoverage
        /\ "low_field_coverage" \in Range(fnret.reasons) <=>
              /\ Cardinality(Populated(arg)) <= 1
              /\ ListValue(arg, "bidders") \in {VAbsent, VList(<<>>)}
              /\ ListValue(arg, "bid_items") \in {VAbsent, VList(<<>>)}

\* C19, amended: as above, but low_field_coverage iff exactly one field is
\* populated and bidders and bid_items are both present and equal to the
\* empty list.
C19_LowCoverageNeedsEmptyLists ==
    AssessReturned =>
        /\ AssessReasonsUpToCoverage
        /\ "low_field_coverage" \in Range(fnret.reasons) <=>
              /\ Cardinality(Populated(arg)) = 1
              /\ ListValue(arg, "bidders") = VList(<<>>)
              /\ ListValue(arg, "bid_items") = VList(<<>>)

\* C19 witness: enough text, one populated field and two empty lists; the
\* only reason is low_field_coverage
C19_Witness ==
    /\ AssessReturned
    /\ Cardinality(Populated(arg)) = 1
    /\ ListValue(arg, "bidders") = VList(<<>>)
    /\ ListValue(arg, "bid_items") = VList(<<>>)
    /\ fnret.needs_ocr /\ fnret.reasons = <<"low_field_coverage">>

\* The traditional result does not suffice: it failed, or its confidence is
\* strictly below the threshold
Insufficient ==
    \/ trad_result.status # "success"
    \/ confidence[1] * threshold[2] < threshold[1] * confidence[2]

\* C20: when extract has returned, the LLM strategy was invoked (constructed
\* and, unless its constructor raised, run once) exactly when the traditional
\* result was insufficient; otherwise the traditional result is returned and
\* the LLM strategy was not touched.
C20_LlmOnlyWhenInsufficient ==
    hpc = "h_done" =>
        /\ llmOutcome # "none" <=> Insufficient
        /\ llmCalls = (IF llmOutcome \in {"none", "ctor_raises"} THEN 0 ELSE 1)
        /\ (~Insufficient =>
               /\ hret.status = trad_result.status
               /\ hret.data = trad_result.data
               /\ hret.meta.method_used = "traditional")

\* C20 witness: the confidence equals the threshold, the traditional result
\* is returned and no LLM call was made
C20_Witness ==
    /\ hpc = "h_done"
    /\ trad_result.status = "success"
    /\ confidence = <<2, 3>> /\ threshold = <<2, 3>>
    /\ llmOutcome = "none" /\ llmCalls = 0
    /\ hret.meta.method_used = "traditional"

\* C21: classify returns the file name's type when that is not Unknown and
\* then does not open the PDF; otherwise it opens the PDF once, and a read
\* that raises, or a PDF without pages, gives Unknown; classify returns a
\* DocumentType in every case.
C21_FilenameThenContent ==
    (fn = "classify" /\ fnpc = "returned") =>
        LET byName == ClassifyByFilename(arg.name) IN
        /\ fnret.type \in DocumentType
        /\ (byName # "unknown" => fnret.type = byName /\ fnret.reads = 0)
        /\ (byName = "unknown" =>
               /\ fnret.reads = 1
               /\ (arg.page.kind \in {"raises", "no_pages"} => fnret.type = "unknown"))

\* C21 witness: the file name says AwardLetter, the first page says
\* invitation to bid; the file name's type is returned, the PDF is not read
C21_Witness ==
    /\ fn = "classify" /\ fnpc = "returned"
    /\ arg.name = FN_AwardLetter
    /\ ClassifyByContent(arg.page) = "invitation_to_bid"
    /\ fnret = [type |-> "award_letter", reads |-> 0]

\* C22: every file name that contains both 'award' and 'letter', in any
\* case, is classified AwardLetter, whatever other keyword it contains.
C22_AwardLetterBeforeGeneric ==
    ( /\ fn = "classify_filename_only" /\ fnpc # "call"
      /\ Contains(Lower(arg), KW_award) /\ Contains(Lower(arg), KW_letter) )
    => fnret[1] = "award_letter"

\* One raw record element `item` and its mapped element `out` under the
\* nested schema `lm`: only canonical fields, each with its own value when the
\* element has it, else with the value of one of its aliases, else absent
ReconciledElement(lm, item, out) ==
    /\ out.isdict
    /\ Keys(out.d) \subseteq Range(lm.fields)
    /\ \A f \in Range(lm.fields) :
          IF Present(item.d, f) THEN out.d[f] = item.d[f]
          ELSE LET sources == {i \in 1..Len(lm.aliases) :
                                  /\ lm.aliases[i][2] = f
                                  /\ Present(item.d, lm.aliases[i][1])}
               IN IF sources = {} THEN out.d[f] = VAbsent
                  ELSE \E i \in sources : out.d[f] = item.d[lm.aliases[i][1]]

\* C23: for each list field of the schema whose raw value is a list, the
\* mapped list holds one mapped record per record element of the raw list, in
\* the raw order, each reconciled against the nested schema.
C23_ListElementsMapped ==
    (fnpc = "returned" /\ fn = "apply_mapping") =>
        \A i \in 1..Len(arg.mapping.list_fields) :
            LET lm == arg.mapping.list_fields[i]
                raw == arg.data.d[lm.name]
                out == fnret.data.d[lm.name]
            IN raw.k = "list" =>
                  /\ out.k = "list"
                  /\ Len(out.l) = Len(RecordElements(raw.l))
                  /\ \A n \in 1..Len(out.l) :
                        ReconciledElement(lm, RecordElements(raw.l)[n], out.l[n])

\* C23 witness: a raw list of a record, a string and a record that names its
\* bidder by the alias; two mapped records, in that order
C23_Witness ==
    /\ fnpc = "returned" /\ fn = "apply_mapping"
    /\ Len(arg.mapping.list_fields) = 1
    /\ arg.data.d["bidders"] = VList(<<AcmeItem, NonRecordItem, AliasItem>>)
    /\ Len(fnret.data.d["bidders"].l) = 2
    /\ fnret.data.d["bidders"].l[1].d["total_bid_amount"] = VStr(S_X)
    /\ fnret.data.d["bidders"].l[2].d["bidder_name"] = VStr(S_Acme)
    /\ fnret.data.d["bidders"].l[2].d["company_name"] = VAbsent

\* The run of process_directory has ended, by returning or by raising
RunEnded == pc \in {"dir_done", "raised"}

\* C24: an incremental run loads the state once, before the first document
\* is fingerprinted, and saves it once, after the last outcome is appended;
\* a run that is not incremental neither loads nor saves it and skips no file
\* as unchanged.
C24_StateReadOnceWrittenOnce ==
    entry = "process_directory" =>
        /\ (incremental =>
               /\ (pc # "dir_start" => stateIO.loads = 1)
               /\ (pc = "dir_start" => stateIO.loads = 0)
               /\ (stateIO.saves > 0 => Len(results) = NumFiles)
               /\ (RunEnded => stateIO.saves = 1)
               /\ (~RunEnded => stateIO.saves = 0))
        /\ (~incremental =>
               /\ stateIO = NoStateIO
               /\ (pc # "dir_start" =>
                      \A i \in 1..Len(results) : results[i].error # "unchanged"))

\* The same with a run that raised left aside
C24_ExceptInRunsThatRaise ==
    pc # "raised" => C24_StateReadOnceWrittenOnce

----------------------------------------------------------------------------
(* Claims about the saved state, checked under SpecInc *)

\* File f, with fingerprint fp, was processed with outcome 'success' in the
\* first run or in the run that is under way or has just ended
ProcessedWithSuccess(f, fp) ==
    \/ /\ prevOutcome[f].status = "success"
       /\ fp = ComputeFileFingerprint(FirstVersion)
    \/ /\ pc # "dir_start"
       /\ fp = ComputeFileFingerprint(fileVersion[f])
       /\ \E i \in 1..Len(results) :
             results[i].file = f /\ results[i].status = "success"

C26_SkipReportsCachedType ==
    (runNo = "second" /\ pc # "dir_start") =>
        \A i \in 1..Len(results) :
            results[i].error = "unchanged" =>
                results[i].document_type = prevOutcome[results[i].file].document_type

----------------------------------------------------------------------------
(* Claims about OCRProcessor.run, checked under Spec *)

\* C27: when OCRProcessor.run has returned, the temporary output file it
\* made was returned as the derived document or no longer exists.
C27_NoTemporaryFileLeft ==
    (entry = "process_file" /\ ocrCalls > 0) =>
        \/ ocrOutcome.has_path
        \/ ocrTmp # "exists"

----------------------------------------------------------------------------
(* Claims about Pipeline.get_summary, checked under SpecFn *)

RECURSIVE SumOfTotals(_, _)
SumOfTotals(by_type, types) ==
    IF types = {} THEN 0
    ELSE LET t == CHOOSE x \in types : TRUE IN
         by_type[t].total + SumOfTotals(by_type, types \ {t})

\* C28: for a result set that is not empty, total_files is the number of
\* outcomes and equals successful + failed + skipped, and the totals of the
\* document types add up to total_files.
C28_SummaryAccountsForAll ==
    (fn = "get_summary" /\ fnpc = "returned" /\ arg # <<>>) =>
        /\ ~fnret.empty
        /\ fnret.total_files = Len(arg)
        /\ fnret.total_files = fnret.successful + fnret.failed + fnret.skipped
        /\ SumOfTotals(fnret.by_document_type, DocumentType) = fnret.total_files

\* The name and the amount a bidder key stands for
KeyOf(name, total_amount) ==
    <<Upper(Strip(NameOrEmpty(name))),
      IF total_amount.k = "none" THEN -1 ELSE total_amount.cents>>

\* C29: load_bidders adds a bidder only if its key, the trimmed upper-cased
\* name together with the total bid amount, is neither the key of a stored
\* bidder of the contract nor of a bidder added earlier in the call; the count
\* returned is the number of bidders added, and 0 when the commit fails.
C29_AddsOnlyNewKeys ==
    (fnpc = "returned" /\ fn = "load_bidders") =>
        /\ \A n \in 1..Len(fnret.added) :
              LET b == arg.bidders[fnret.added[n]] IN
              /\ \A row \in arg.existing :
                    KeyOf(VStr(row.bidder_name), row.total_bid_amount)
                        # KeyOf(b.bidder_name, b.total_bid_amount)
              /\ \A m \in 1..(n - 1) :
                    KeyOf(arg.bidders[fnret.added[m]].bidder_name,
                          arg.bidders[fnret.added[m]].total_bid_amount)
                        # KeyOf(b.bidder_name, b.total_bid_amount)
        /\ fnret.count = (IF arg.commit_ok THEN Len(fnret.added) ELSE 0)

\* What holds of load_bidders: the same with the amounts compared as the text
\* str() prints for them
C29_AddsOnlyNewKeyStrings ==
    (fnpc = "returned" /\ fn = "load_bidders") =>
        /\ \A n \in 1..Len(fnret.added) :
              LET b == arg.bidders[fnret.added[n]] IN
              /\ \A row \in arg.existing :
                    BidderKey(VStr(row.bidder_name), row.total_bid_amount)
                        # BidderKey(b.bidder_name, b.total_bid_amount)
              /\ \A m \in 1..(n - 1) :
                    BidderKey(arg.bidders[fnret.added[m]].bidder_name,
                              arg.bidders[fnret.added[m]].total_bid_amount)
                        # BidderKey(b.bidder_name, b.total_bid_amount)
        /\ fnret.count = (IF arg.commit_ok THEN Len(fnret.added) ELSE 0)

NoSlash(s) == \A i \in 1..Len(s) : s[i] # "/"

\* `new` is `prefix` without its trailing slashes, a slash, and the last
\* component of `key`
IsUnderPrefix(new, prefix, key) ==
    \E n \in 0..Len(prefix) : \E m \in 1..Len(key) :
        LET p == SubSeq(prefix, 1, n)
            base == SubSeq(key, Len(key) - m + 1, Len(key))
        IN /\ \A i \in (n + 1)..Len(prefix) : prefix[i] = "/"
           /\ (n > 0 => prefix[n] # "/")
           /\ NoSlash(base)
           /\ (m < Len(key) => key[Len(key) - m] = "/")
           /\ new = p \o <<"/">> \o base

Moved(call, new) ==
    IsUnderPrefix(new,
                  IF call.success THEN call.processed_prefix ELSE call.error_prefix,
                  call.key)

\* C30: move_source(key, success) issues one copy of the object to the
\* processed prefix when success is true and to the error prefix otherwise,
\* then one delete of the source key, and returns the new key; the delete is
\* issued only after the copy has returned, so that a failing copy leaves the
\* source object in place.
C30_CopyThenDelete ==
    /\ [](fn = "move_source" /\ fnpc # "call" =>
            /\ Len(fnret.log) \in {1, 2}
            /\ fnret.log[1].op = "copy_object"
            /\ fnret.log[1].source = arg.key
            /\ Moved(arg, fnret.log[1].key)
            /\ (Len(fnret.log) = 2 =>
                   /\ fnret.log[2] = DeleteObject(arg.key)
                   /\ fnret.log[1].key \in fnret.objects)
            /\ (fnpc = "returned" =>
                   /\ Len(fnret.log) = 2
                   /\ fnret.value = fnret.log[1].key)
            /\ (fnret.log[1].key \notin fnret.objects =>
                   /\ Len(fnret.log) = 1
                   /\ arg.key \in fnret.objects
                   /\ fnpc = "raised"))
    /\ [][fn = "move_source" /\ fnpc # "call" =>
            /\ Len(fnret'.log) = 2
            /\ fnret.log[1].key \in fnret.objects]_vars

C30_Witness ==
    /\ fn = "move_source"
    /\ fnpc = "returned"
    /\ arg.key = S_raw_a
    /\ ~arg.success
    /\ arg.error_prefix = S_error \o <<"/">>
    /\ fnret.value = S_error \o <<"/", "a", ".", "p", "d", "f">>
    /\ fnret.objects = {fnret.value}

====
